---- MODULE Spec2Model ----
(***************************************************************************)
(* People's Agent: the LangGraph pipeline of backend/graph.py              *)
(* (load_context -> route -> extract/reflect/refine/enrich/respond or      *)
(* simple -> save -> synthesize), the stores it writes (graph store,       *)
(* vector index, conversation log) and the background task registry of     *)
(* backend/background_worker.py.                                           *)
(*                                                                         *)
(* Strings are TLC strings; Len, SubSeq and \o work on them, so the text   *)
(* predicates of the code (lower, strip, startswith, "in", split) are      *)
(* computed on the characters of the concrete inputs.                      *)
(***************************************************************************)
EXTENDS Integers, Sequences, FiniteSets, TLC

VARIABLES
    pc,            \* run -> node about to execute / "idle" / "end" / "done" / "failed"
    thought,       \* run -> AgentState.thought
    thought_id,    \* run -> AgentState.thought_id
    iters,         \* run -> AgentState.reflection_iterations
    critique,      \* run -> AgentState.critique
    entities,      \* run -> AgentState.entities (sequence of entity names)
    response,      \* run -> AgentState.response
    actions,       \* run -> AgentState.actions, abstracted to its shape
    trace,         \* run -> sequence of the graph nodes the run has executed
    raised,        \* run -> what made the run raise ("" when it did not)
    graphThoughts, \* Thought nodes of the graph store: set of thought ids
    vectorIndex,   \* documents of the vector collection: set of thought ids
    conversation_history, \* knowledge_graph.conversation_history
    convFileLen,   \* number of messages in CONVERSATION_FILE (last good dump)
    writeLog,      \* the write calls knowledge_saver made, in call order
    lostWrites,    \* the save writes that failed and were swallowed
    pending_tasks, \* background_worker._pending_tasks: task_id -> task
    tasks,         \* run -> state of the synthesis task the run created
    rt_thought,    \* routing check: the input
    rt_result,     \* routing check: the output ("" before the call)
    bw_op,         \* registry check: the last background_worker call made
    bw_status,     \* registry check: <<task_id, status>> of the last get_task_status
    rs_in,         \* resolver check: the arguments of resolve_entity
    rs_out,        \* resolver check: what resolve_entity returned (<<>> before the call)
    rs_again,      \* resolver check: what resolving the returned name returned
    entityStore,   \* Entity nodes of the graph store: records key, name, type
    es_pc,         \* entity check: run -> "idle" / "extracted" / "synth" / "done"
    es_raw,        \* entity check: run -> the entities the extractor returned
    es_ents,       \* entity check: run -> AgentState.entities after resolution
    es_i,          \* entity check: run -> next item of the run's synthesis task
    es_seen,       \* entity check: run -> the runs saved before it extracted
    es_added,      \* entity check: run -> Entity nodes its save created
    rv_stats,      \* review check: thought id -> review_count and ease_factor
    cc_in,         \* compression check: <<context_text, max_chars>> of the call
    cc_out,        \* compression check: <<returned string>>, <<>> before the call
    rk_nodes, \* risk check: Entity nodes with their status
    rk_blocks, \* risk check: BLOCKS edges <<thought, name, type>>
    rk_state, \* risk check: <<fields of the run's state before save>>, <<>> between runs
    rk_saved,\* risk check: the thoughts saved, in order
    nm_pc, \* name check: position of the run
    nm_ents, \* name check: the entities of the run's state
    nm_dropped, \* name check: the run parsed a list holding an entity without a name
    nm_saved,\* name check: the Thoughts saved, in order
    nm_resolved, \* name check: what batch_resolve_entities returned in the run
    hl_stored, \* hole check: the stored thoughts, each the names of the entities it mentions
    hl_query, \* hole check: <<new_thought_entities, limit>> of the last call
    hl_holes, \* hole check: the holes the last call found
    hl_oks, \* hole check: which nudge generations of the last call succeeded
    hl_nudges,\* hole check: the nudges the last call returned
    ox_thought, \* oracle check: the thought of the run
    ox_pc, \* oracle check: position of the run
    ox_ents, \* oracle check: the entities of the state
    ox_crit, \* oracle check: the critique of the state
    ox_iters, \* oracle check: reflection_iterations
    ox_last, \* oracle check: <<stage, its model call succeeded, entities before it>> of the last step
    ox_failed,\* oracle check: the stages whose model call failed
    en_pc, \* enrich check: position of the run
    en_in, \* enrich check: <<the outcomes of the calls made by enrich>>
    en_out,\* enrich check: <<the fields enrich put in the state>>
    th_pc, \* think check: position of the request
    th_req, \* think check: <<the request and its HTTP status>>
    th_trace, \* think check: the nodes run for the request
    th_store, \* think check: the thoughts saved, indexed and logged
    th_calls,\* think check: number of requests made
    sp_pc, \* simple-path check: position of the run in progress
    sp_ents, \* simple-path check: the entities of its state
    sp_runs, \* simple-path check: the calls made, with route and outcome
    sp_thoughts, \* simple-path check: the Thought nodes
    sp_entities, \* simple-path check: the Entity nodes
    sp_tasks, \* simple-path check: the synthesis task of each call
    sp_writers,\* simple-path check: the calls that changed the Entity nodes
    rq_now, \* resurface check: the clock of the database, in half-days
    rq_zone, \* resurface check: the host's zone minus the database's, in half-days
    rq_thoughts, \* resurface check: the review fields of the Thought nodes
    rq_reviews, \* resurface check: number of mark_as_reviewed calls
    rq_queue,\* resurface check: <<the queue last returned>>
    sc_in, \* reflection edge check: the fields of the state the edge reads
    sc_out,\* reflection edge check: <<what the edge returned>>
    rc_in, \* candidate check: the arguments of resolve_entity
    rc_out,\* candidate check: what resolve_entity returned (<<>> before the call)
    br_in, \* batch check: the entities and the graph's entities given to batch_resolve_entities
    br_out,\* batch check: <<"list", the list returned>> (<<>> when idle, <<"none">> before the call)
    rf_pc, \* refine check: "reflected", then the edge's answer, then "refined"
    rf_crit, \* refine check: the critique
    rf_thought, \* refine check: the thought
    rf_ents, \* refine check: the entities of the state
    rf_before, \* refine check: the entities before the refine stage
    rf_calls,\* refine check: calls of the refiner's model so far
    ce_type, \* state check: entity_type of the CognitiveEntity
    ce_state, \* state check: current_state
    ce_history, \* state check: state_history (from, to, reason)
    ce_calls, \* state check: calls made so far
    ce_last,\* state check: <<from, to, returned, history before>> of the last transition_state call
    co_pc, \* concurrent runs: the stage each coroutine waits in
    co_id, \* concurrent runs: thought_id of each run
    co_log, \* concurrent runs: conversation_history
    co_order \* concurrent runs: the starts and the saves that wrote, in order

vars == <<pc, thought, thought_id, iters, critique, entities, response,
          actions, trace, raised, graphThoughts, vectorIndex,
          conversation_history, convFileLen, writeLog, lostWrites,
          pending_tasks, tasks, rt_thought, rt_result, bw_op, bw_status,
          rs_in, rs_out, rs_again, entityStore, es_pc, es_raw, es_ents,
          es_i, es_seen, es_added, rv_stats, cc_in, cc_out, rk_nodes, rk_blocks, rk_state, rk_saved, nm_pc, nm_ents, nm_dropped, nm_saved, nm_resolved, hl_stored, hl_query, hl_holes, hl_oks, hl_nudges, ox_thought, ox_pc, ox_ents, ox_crit, ox_iters, ox_last, ox_failed, en_pc, en_in, en_out, th_pc, th_req, th_trace, th_store, th_calls, sp_pc, sp_ents, sp_runs, sp_thoughts, sp_entities, sp_tasks, sp_writers, rq_now, rq_zone, rq_thoughts, rq_reviews, rq_queue, sc_in, sc_out, rc_in, rc_out, br_in, br_out, rf_pc, rf_crit, rf_thought, rf_ents, rf_before, rf_calls, ce_type, ce_state, ce_history, ce_calls, ce_last, co_pc, co_id, co_log, co_order>>

-----------------------------------------------------------------------------
(* Text helpers: Python's str.lower, str.strip, str.startswith, "in",      *)
(* str.split.                                                              *)

UpperChars == "ABCDEFGHIJKLMNOPQRSTUVWXYZ"
LowerChars == "abcdefghijklmnopqrstuvwxyz"

CharAt(s, i) == SubSeq(s, i, i)

LowerChar(c) ==
    IF \E i \in 1..Len(UpperChars) : CharAt(UpperChars, i) = c
    THEN CharAt(LowerChars, CHOOSE i \in 1..Len(UpperChars) : CharAt(UpperChars, i) = c)
    ELSE c

RECURSIVE Lower(_)
Lower(s) ==
    IF Len(s) = 0 THEN ""
    ELSE IF Len(s) = 1 THEN LowerChar(s)
    ELSE Lower(SubSeq(s, 1, Len(s) \div 2)) \o Lower(SubSeq(s, Len(s) \div 2 + 1, Len(s)))

IsSpace(c) == c \in {" ", "\t", "\n", "\r"}

RECURSIVE LStrip(_)
LStrip(s) ==
    IF Len(s) > 0 /\ IsSpace(CharAt(s, 1)) THEN LStrip(SubSeq(s, 2, Len(s))) ELSE s

RECURSIVE RStrip(_)
RStrip(s) ==
    IF Len(s) > 0 /\ IsSpace(CharAt(s, Len(s))) THEN RStrip(SubSeq(s, 1, Len(s) - 1)) ELSE s

Strip(s) == RStrip(LStrip(s))

StartsWith(s, p) == Len(s) >= Len(p) /\ SubSeq(s, 1, Len(p)) = p

Contains(s, p) == \E i \in 1..(Len(s) - Len(p) + 1) : SubSeq(s, i, i + Len(p) - 1) = p

\* len(s.split()): the number of maximal runs of non-whitespace characters
WordCount(s) ==
    Cardinality({i \in 1..Len(s) :
        /\ ~IsSpace(CharAt(s, i))
        /\ (i = 1 \/ IsSpace(CharAt(s, i - 1)))})

-----------------------------------------------------------------------------
(* Routing: should_use_full_pipeline                                       *)

simple_patterns ==
    {"hi", "hello", "hey", "thanks", "thank you", "ok", "okay", "bye", "goodbye"}

MinFullLength == 15

should_use_full_pipeline_inclusive(t) ==
    IF Len(Strip(Lower(t))) <= MinFullLength \/ Strip(Lower(t)) \in simple_patterns
    THEN "simple" ELSE "full_pipeline"

should_use_full_pipeline(t) ==
    IF Len(Strip(Lower(t))) < MinFullLength \/ Strip(Lower(t)) \in simple_patterns
    THEN "simple" ELSE "full_pipeline"

-----------------------------------------------------------------------------
(* Bounds and input sets                                                   *)

MaxRuns == 2      \* number of process_thought calls

Runs == 1..MaxRuns

\* str(uuid.uuid4())[:8] is a random 32-bit value: a call returns a value
\* drawn before or a new one.  Values are numbered in the order of their
\* first draw.
IdSpace == 1..MaxRuns

GreetingThought == "hi"
QuestionThought == "When is my meeting with John?"
LongThought ==
    "My meeting with John is scheduled for Friday at 3pm to discuss the budget and the launch plan for the Apollo project"

Thoughts == {GreetingThought, QuestionThought, LongThought}

\* what the entity extractor / the refiner can return after parsing
ExtractOutputs == {<<>>, <<"John">>, <<"John", "Apollo">>}
RefineOutputs == {<<>>, <<"John", "Sarah">>}

\* what the critic can return
Critiques ==
    { "Looks good.",
      "Looks good, nothing missing.",
      "Looks good, but a person is missing from the list.",
      "Missing: Sarah (Person).",
      "Types are fine.",
      "ok" }

LLMResponse == "Noted."

NoTask == "none"

-----------------------------------------------------------------------------
(* should_continue_reflection                                              *)

refinement_signals ==
    { "missing", "should include", "could add", "forgot",
      "overlooked", "didn't catch", "also mention", "important",
      "person", "project", "relationship" }

MaxReflections == 2
GenericCritiqueLen == 30
SubstantiveWords == 20
FewEntities == 2

should_continue_reflection_nocap(crit, iterations, entity_count, t) ==
    LET c == Lower(crit) IN
    IF iterations >= MaxReflections + 1 THEN "conclude"
    ELSE IF StartsWith(c, "looks good") /\ Len(c) < GenericCritiqueLen THEN "conclude"
    ELSE IF \E sig \in refinement_signals : Contains(c, sig) THEN "refine"
    ELSE IF WordCount(t) > SubstantiveWords /\ entity_count < FewEntities /\ iterations = 1
         THEN "refine"
    ELSE "conclude"

\* should_continue_reflection with the signal words scanned before the
\* generic "looks good"
should_continue_reflection_signals_first(crit, iterations, entity_count, t) ==
    LET c == Lower(crit) IN
    IF iterations >= MaxReflections THEN "conclude"
    ELSE IF \E sig \in refinement_signals : Contains(c, sig) THEN "refine"
    ELSE IF StartsWith(c, "looks good") /\ Len(c) < GenericCritiqueLen THEN "conclude"
    ELSE IF WordCount(t) > SubstantiveWords /\ entity_count < FewEntities /\ iterations = 1
         THEN "refine"
    ELSE "conclude"

should_continue_reflection(crit, iterations, entity_count, t) ==
    LET c == Lower(crit) IN
    IF iterations >= MaxReflections THEN "conclude"
    ELSE IF StartsWith(c, "looks good") /\ Len(c) < GenericCritiqueLen THEN "conclude"
    ELSE IF \E sig \in refinement_signals : Contains(c, sig) THEN "refine"
    ELSE IF WordCount(t) > SubstantiveWords /\ entity_count < FewEntities /\ iterations = 1
         THEN "refine"
    ELSE "conclude"

-----------------------------------------------------------------------------
(* Initial state                                                           *)

\* no process_thought call made yet, empty stores
CallsInit ==
    /\ pc = [r \in Runs |-> "idle"]
    /\ thought = [r \in Runs |-> ""]
    /\ thought_id = [r \in Runs |-> 0]
    /\ iters = [r \in Runs |-> 0]
    /\ critique = [r \in Runs |-> ""]
    /\ entities = [r \in Runs |-> <<>>]
    /\ response = [r \in Runs |-> ""]
    /\ actions = [r \in Runs |-> "none"]
    /\ trace = [r \in Runs |-> <<>>]
    /\ raised = [r \in Runs |-> ""]
    /\ graphThoughts = {}
    /\ vectorIndex = {}
    /\ conversation_history = <<>>
    /\ convFileLen = 0
    /\ writeLog = <<>>
    /\ lostWrites = {}

PipelineInit ==
    /\ CallsInit
    /\ pending_tasks = [k \in IdSpace |-> 0]
    /\ tasks = [r \in Runs |-> NoTask]

\* the variables of the checks of single modules, when not in use
RouteIdle == rt_thought = "" /\ rt_result = ""
WorkerIdle == bw_op = "" /\ bw_status = <<>>
ResolverIdle == rs_in = <<>> /\ rs_out = <<>> /\ rs_again = <<>>
EntityIdle ==
    /\ entityStore = {}
    /\ es_pc = <<>>
    /\ es_raw = <<>>
    /\ es_ents = <<>>
    /\ es_i = <<>>
    /\ es_seen = <<>>
    /\ es_added = <<>>
ReviewIdle == rv_stats = <<>>
CompressIdle == cc_in = <<>> /\ cc_out = <<>>
RiskIdle == rk_nodes = <<>> /\ rk_blocks = <<>> /\ rk_state = <<>> /\ rk_saved = <<>>
NameIdle == nm_pc = <<>> /\ nm_ents = <<>> /\ nm_dropped = <<>> /\ nm_saved = <<>> /\ nm_resolved = <<>>
HoleIdle == hl_stored = <<>> /\ hl_query = <<>> /\ hl_holes = <<>> /\ hl_oks = <<>> /\ hl_nudges = <<>>
OracleIdle == ox_thought = <<>> /\ ox_pc = <<>> /\ ox_ents = <<>> /\ ox_crit = <<>> /\ ox_iters = <<>> /\ ox_last = <<>> /\ ox_failed = <<>>
EnrichIdle == en_pc = <<>> /\ en_in = <<>> /\ en_out = <<>>
ThinkIdle == th_pc = <<>> /\ th_req = <<>> /\ th_trace = <<>> /\ th_store = <<>> /\ th_calls = <<>>
SimpleIdle == sp_pc = <<>> /\ sp_ents = <<>> /\ sp_runs = <<>> /\ sp_thoughts = <<>> /\ sp_entities = <<>> /\ sp_tasks = <<>> /\ sp_writers = <<>>
QueueIdle == rq_now = <<>> /\ rq_zone = <<>> /\ rq_thoughts = <<>> /\ rq_reviews = <<>> /\ rq_queue = <<>>
ContinueIdle == sc_in = <<>> /\ sc_out = <<>>
CandidateIdle == rc_in = <<>> /\ rc_out = <<>>
BatchIdle == br_in = <<>> /\ br_out = <<>>
RefineIdle == rf_pc = <<>> /\ rf_crit = <<>> /\ rf_thought = <<>> /\ rf_ents = <<>> /\ rf_before = <<>> /\ rf_calls = <<>>
StatesIdle == ce_type = <<>> /\ ce_state = <<>> /\ ce_history = <<>> /\ ce_calls = <<>> /\ ce_last = <<>>
ConcIdle == co_pc = <<>> /\ co_id = <<>> /\ co_log = <<>> /\ co_order = <<>>

Init ==
    /\ PipelineInit
    /\ RouteIdle
    /\ WorkerIdle
    /\ ResolverIdle
    /\ EntityIdle
    /\ ReviewIdle
    /\ CompressIdle
    /\ RiskIdle
    /\ NameIdle
    /\ HoleIdle
    /\ OracleIdle
    /\ EnrichIdle
    /\ ThinkIdle
    /\ SimpleIdle
    /\ QueueIdle
    /\ ContinueIdle
    /\ CandidateIdle
    /\ BatchIdle
    /\ RefineIdle
    /\ StatesIdle
    /\ ConcIdle

storeVars == <<graphThoughts, vectorIndex, conversation_history, convFileLen,
               writeLog, lostWrites>>
taskVars == <<pending_tasks, tasks>>
routeVars == <<rt_thought, rt_result>>
workerVars == <<bw_op, bw_status>>
resolverVars == <<rs_in, rs_out, rs_again>>
entityVars == <<entityStore, es_pc, es_raw, es_ents, es_i, es_seen, es_added>>
reviewVars == <<rv_stats>>
compressVars == <<cc_in, cc_out>>
riskVars == <<rk_nodes, rk_blocks, rk_state, rk_saved>>
nameVars == <<nm_pc, nm_ents, nm_dropped, nm_saved, nm_resolved>>
holeVars == <<hl_stored, hl_query, hl_holes, hl_oks, hl_nudges>>
oracleVars == <<ox_thought, ox_pc, ox_ents, ox_crit, ox_iters, ox_last, ox_failed>>
enrichVars == <<en_pc, en_in, en_out>>
thinkVars == <<th_pc, th_req, th_trace, th_store, th_calls>>
simpleVars == <<sp_pc, sp_ents, sp_runs, sp_thoughts, sp_entities, sp_tasks, sp_writers>>
queueVars == <<rq_now, rq_zone, rq_thoughts, rq_reviews, rq_queue>>
continueVars == <<sc_in, sc_out>>
candidateVars == <<rc_in, rc_out>>
batchVars == <<br_in, br_out>>
refineVars == <<rf_pc, rf_crit, rf_thought, rf_ents, rf_before, rf_calls>>
statesVars == <<ce_type, ce_state, ce_history, ce_calls, ce_last>>
concVars == <<co_pc, co_id, co_log, co_order>>
sideVars == <<routeVars, workerVars, resolverVars, entityVars, reviewVars,
              compressVars, riskVars, nameVars, holeVars, oracleVars, enrichVars, thinkVars, simpleVars, queueVars, continueVars, candidateVars, batchVars, refineVars, statesVars, concVars>>

\* the node raises: LangGraph propagates the exception out of agent.ainvoke
\* and process_thought has no handler; the caller gets the exception and
\* nothing of the AgentState
Raise(r, node, why) ==
    /\ pc' = [pc EXCEPT ![r] = "failed"]
    /\ trace' = [trace EXCEPT ![r] = Append(@, node)]
    /\ raised' = [raised EXCEPT ![r] = why]
    /\ iters' = [iters EXCEPT ![r] = 0]
    /\ critique' = [critique EXCEPT ![r] = ""]
    /\ entities' = [entities EXCEPT ![r] = <<>>]
    /\ response' = [response EXCEPT ![r] = ""]
    /\ actions' = [actions EXCEPT ![r] = "none"]

\* the node returns and the graph moves to `next`
Goto(r, node, next) ==
    /\ pc' = [pc EXCEPT ![r] = next]
    /\ trace' = [trace EXCEPT ![r] = Append(@, node)]
    /\ raised' = raised

-----------------------------------------------------------------------------
(* process_thought and the graph nodes.  A node that awaits only the model *)
(* reads and writes the shared stores in one synchronous stretch, so each  *)
(* node is one step.                                                       *)

Finished(r) == pc[r] \in {"done", "failed"}

\* the thought ids handed out so far
DrawnIds == {thought_id[r] : r \in {q \in Runs : pc[q] # "idle"}}

\* process_thought, up to agent.ainvoke: the initial AgentState.  The
\* caller awaits one call before it makes the next (as the module's own
\* test does); the AgentState of the calls that ended is garbage by then,
\* their thought_id is what the caller keeps.
\* id: the value of str(uuid.uuid4())[:8], one drawn before or the next new one
process_thought(r, t, id) ==
    /\ pc[r] = "idle"
    /\ \A q \in Runs : q < r => Finished(q)
    /\ id \in DrawnIds \/ id = Cardinality(DrawnIds) + 1
    /\ pc' = [pc EXCEPT ![r] = "load_context"]
    /\ thought' = [q \in Runs |-> IF q = r THEN t ELSE ""]
    /\ thought_id' = [thought_id EXCEPT ![r] = id]
    /\ response' = [q \in Runs |-> ""]
    /\ entities' = [q \in Runs |-> <<>>]
    /\ iters' = [q \in Runs |-> 0]
    /\ critique' = [q \in Runs |-> ""]
    /\ actions' = [q \in Runs |-> "none"]
    /\ trace' = [q \in Runs |-> <<>>]
    /\ raised' = [q \in Runs |-> ""]
    /\ UNCHANGED <<storeVars, taskVars, sideVars>>

interrogatives ==
    { "what", "how", "why", "when", "where", "who", "can", "could", "would",
      "should", "do", "does", "is", "are", "tell me", "explain", "help me" }

is_question(t) ==
    Contains(t, "?") \/ \E w \in interrogatives : StartsWith(Lower(t), w)

\* context_loader, then the conditional edge should_use_full_pipeline.
\* fault: "none"; "vector_query" (collection.query raises, caught in
\* semantic_search); "vector_count" (collection.count raises, outside the
\* try); "graph_search" (search_notes raises, questions only)
context_loader(r, fault) ==
    /\ pc[r] = "load_context"
    /\ fault = "graph_search" => is_question(thought[r])
    /\ IF fault \in {"vector_count", "graph_search"}
       THEN Raise(r, "load_context", fault)
       ELSE /\ Goto(r, "load_context",
                    IF should_use_full_pipeline(thought[r]) = "simple"
                    THEN "simple" ELSE "extract")
            /\ iters' = [iters EXCEPT ![r] = 0]
            /\ critique' = [critique EXCEPT ![r] = ""]
            /\ UNCHANGED <<entities, response, actions>>
    /\ UNCHANGED <<thought, thought_id, storeVars, taskVars, sideVars>>

\* knowledge_extractor.  out: what extract_entities returns ([] when the
\* model call or the parse failed); fault "graph_read": get_all_entities or
\* get_context_for_thought raises (both are skipped for an empty list)
knowledge_extractor(r, out, fault) ==
    /\ pc[r] = "extract"
    /\ fault = "graph_read" => out # <<>>
    /\ IF fault = "graph_read"
       THEN Raise(r, "extract", fault)
       ELSE /\ Goto(r, "extract", "reflect")
            /\ entities' = [entities EXCEPT ![r] = out]
            /\ UNCHANGED <<iters, critique, response, actions>>
    /\ UNCHANGED <<thought, thought_id, storeVars, taskVars, sideVars>>

\* critique_extraction with an empty text when the call fails
critique_extraction_silent(oracle_ok, text) == IF oracle_ok THEN text ELSE ""

\* critique_extraction: the model's text, "Looks good." when the call fails
critique_extraction(oracle_ok, text) == IF oracle_ok THEN text ELSE "Looks good."

\* reflection_node, then the conditional edge should_continue_reflection
reflection_node(r, oracle_ok, text) ==
    /\ pc[r] = "reflect"
    /\ LET crit == critique_extraction(oracle_ok, text)
           n == iters[r] + 1
       IN /\ critique' = [critique EXCEPT ![r] = crit]
          /\ iters' = [iters EXCEPT ![r] = n]
          /\ Goto(r, "reflect",
                  IF should_continue_reflection(crit, n, Len(entities[r]), thought[r]) = "refine"
                  THEN "refine" ELSE "enrich")
    /\ UNCHANGED <<thought, thought_id, entities, response, actions,
                   storeVars, taskVars, sideVars>>

TrivialCritiqueLen == 5

\* refine_extraction taking for trivial what the edge takes for generic
refine_extraction_generic_only(ents, crit, oracle_ok, out) ==
    IF StartsWith(Lower(crit), "looks good") /\ Len(crit) < GenericCritiqueLen THEN ents
    ELSE IF oracle_ok THEN out
    ELSE ents

\* the calls of llm.ainvoke refine_extraction makes: none on the early return
refine_extraction_calls(crit) ==
    IF StartsWith(Lower(crit), "looks good") \/ Len(crit) < TrivialCritiqueLen THEN 0
    ELSE 1

\* refine_extraction: unchanged for a "looks good" or trivially short
\* critique (no model call), unchanged when the call or parse fails,
\* otherwise the parsed list
refine_extraction(ents, crit, oracle_ok, out) ==
    IF StartsWith(Lower(crit), "looks good") \/ Len(crit) < TrivialCritiqueLen THEN ents
    ELSE IF oracle_ok THEN out
    ELSE ents

\* refinement_node; its edge goes back to reflect
refinement_node(r, oracle_ok, out) ==
    /\ pc[r] = "refine"
    /\ entities' = [entities EXCEPT ![r] = refine_extraction(@, critique[r], oracle_ok, out)]
    /\ Goto(r, "refine", "reflect")
    /\ UNCHANGED <<thought, thought_id, iters, critique, response, actions,
                   storeVars, taskVars, sideVars>>

\* enrich.  acts: the shape of what audit_actionability returns ("none":
\* the empty list, also its default on failure; "ok": ActionItem dicts;
\* "malformed": dicts the model invented other keys for); fault
\* "graph_read": get_synthesized_projects or get_people raises
enrich(r, acts, fault) ==
    /\ pc[r] = "enrich"
    /\ IF fault = "graph_read"
       THEN Raise(r, "enrich", fault)
       ELSE /\ Goto(r, "enrich", "respond")
            /\ actions' = [actions EXCEPT ![r] = acts]
            /\ UNCHANGED <<iters, critique, entities, response>>
    /\ UNCHANGED <<thought, thought_id, storeVars, taskVars, sideVars>>

\* assistant_responder: llm.ainvoke is not guarded
assistant_responder(r, oracle_ok) ==
    /\ pc[r] = "respond"
    /\ IF oracle_ok
       THEN /\ Goto(r, "respond", "save")
            /\ response' = [response EXCEPT ![r] = LLMResponse]
            /\ UNCHANGED <<iters, critique, entities, actions>>
       ELSE Raise(r, "respond", "oracle")
    /\ UNCHANGED <<thought, thought_id, storeVars, taskVars, sideVars>>

\* simple_responder: llm.ainvoke is not guarded
simple_responder(r, oracle_ok) ==
    /\ pc[r] = "simple"
    /\ IF oracle_ok
       THEN /\ Goto(r, "simple", "save")
            /\ response' = [response EXCEPT ![r] = LLMResponse]
            /\ entities' = [entities EXCEPT ![r] = <<>>]
            /\ UNCHANGED <<iters, critique, actions>>
       ELSE Raise(r, "simple", "oracle")
    /\ UNCHANGED <<thought, thought_id, storeVars, taskVars, sideVars>>

\* ConversationMessage, without its content and timestamp
Msg(role, id) == [role |-> role, thought_id |-> id]
Call(op, r) == [op |-> op, run |-> r, id |-> thought_id[r]]

\* the write calls of knowledge_saver, in the order of its statements
SaveCalls_index_first(r) ==
    <<Call("vector", r), Call("graph", r), Call("user", r), Call("assistant", r)>>

SaveCalls(r) ==
    <<Call("graph", r), Call("vector", r), Call("user", r), Call("assistant", r)>>

\* the edge out of "save" ("end" is END: agent.ainvoke is about to return)
save_edge_end == "end"

save_edge == "synthesize"

SaveFaults == {"none", "graph", "graph_partial", "vector", "convfile", "holes", "tasks"}

\* knowledge_saver.  fault: which gateway call fails during this save.
\*   a malformed action dict makes ActionItem(**a) raise before any call;
\*   "graph": the Thought MERGE of add_thought raises;
\*   "graph_partial": a later statement of add_thought raises (each
\*       session.run commits on its own);
\*   "vector": collection.upsert raises, caught in vector_store.add_thought;
\*   "convfile": the dumps to CONVERSATION_FILE raise, caught in
\*       _save_conversations;
\*   "holes": the structural-hole query raises (run for a non-empty entity list);
\*   "tasks": create_task_hierarchy raises (run when actions were detected)
knowledge_saver(r, fault) ==
    LET id == thought_id[r] IN
    /\ pc[r] = "save"
    /\ fault = "holes" => entities[r] # <<>>
    /\ fault = "tasks" => actions[r] = "ok"
    /\ IF actions[r] = "malformed"
       THEN /\ Raise(r, "save", "malformed_action")
            /\ UNCHANGED storeVars
       ELSE IF fault \in {"graph", "graph_partial"}
       THEN /\ Raise(r, "save", fault)
            /\ graphThoughts' = IF fault = "graph" THEN graphThoughts
                                ELSE graphThoughts \cup {id}
            /\ writeLog' = Append(writeLog, SaveCalls(r)[1])
            /\ UNCHANGED <<vectorIndex, conversation_history, convFileLen, lostWrites>>
       ELSE /\ graphThoughts' = graphThoughts \cup {id}
            /\ vectorIndex' = IF fault = "vector" THEN vectorIndex ELSE vectorIndex \cup {id}
            /\ conversation_history' =
                   conversation_history \o <<Msg("user", id), Msg("assistant", id)>>
            /\ convFileLen' = IF fault = "convfile" THEN convFileLen
                              ELSE Len(conversation_history) + 2
            /\ writeLog' = writeLog \o SaveCalls(r)
            /\ lostWrites' = lostWrites \cup
                   (IF fault = "vector" THEN {<<r, "vector">>}
                    ELSE IF fault = "convfile" THEN {<<r, "conversation">>}
                    ELSE {})
            /\ IF fault \in {"holes", "tasks"}
               THEN Raise(r, "save", fault)
               ELSE /\ Goto(r, "save", save_edge)
                    /\ UNCHANGED <<iters, critique, entities, response, actions>>
    /\ UNCHANGED <<thought, thought_id, taskVars, sideVars>>

\* run_in_background under a running loop: create the task, store it under
\* task_id (whatever was stored there before)
run_in_background_awaited(r, task_id) ==
    /\ tasks' = [tasks EXCEPT ![r] = "completed"]
    /\ pending_tasks' = [pending_tasks EXCEPT ![task_id] = r]

run_in_background(r, task_id) ==
    /\ tasks' = [tasks EXCEPT ![r] = "running"]
    /\ pending_tasks' = [pending_tasks EXCEPT ![task_id] = r]

\* synthesis_node: schedules run_synthesis_pipeline and returns; its edge
\* goes to END
synthesis_node(r) ==
    /\ pc[r] = "synthesize"
    /\ run_in_background(r, thought_id[r])
    /\ Goto(r, "synthesize", "end")
    /\ UNCHANGED <<thought, thought_id, iters, critique, entities, response,
                   actions, storeVars, sideVars>>

\* process_thought, after agent.ainvoke: the graph reached END, the result
\* dict is built from the final state and returned; no task is awaited.
\* The dict has the response, the entities and the actions, not the
\* critique or the iteration count.
process_thought_return(r) ==
    /\ pc[r] = "end"
    /\ pc' = [pc EXCEPT ![r] = "done"]
    /\ iters' = [iters EXCEPT ![r] = 0]
    /\ critique' = [critique EXCEPT ![r] = ""]
    /\ UNCHANGED <<thought, thought_id, entities, response, actions, trace,
                   raised, storeVars, taskVars, sideVars>>

\* the event loop runs wrapper() to its end: the coroutine returned
\* ("completed") or raised and wrapper caught it ("errored")
wrapper(r, coro_ok) ==
    /\ tasks[r] = "running"
    /\ tasks' = [tasks EXCEPT ![r] = IF coro_ok THEN "completed" ELSE "errored"]
    /\ UNCHANGED <<pc, thought, thought_id, iters, critique, entities, response,
                   actions, trace, raised, storeVars, pending_tasks, sideVars>>

Next ==
    \/ \E r \in Runs, t \in Thoughts, id \in IdSpace : process_thought(r, t, id)
    \/ \E r \in Runs, f \in {"none", "vector_query", "vector_count", "graph_search"} :
          context_loader(r, f)
    \/ \E r \in Runs, out \in ExtractOutputs, f \in {"none", "graph_read"} :
          knowledge_extractor(r, out, f)
    \/ \E r \in Runs, ok \in BOOLEAN, text \in Critiques : reflection_node(r, ok, text)
    \/ \E r \in Runs, ok \in BOOLEAN, out \in RefineOutputs : refinement_node(r, ok, out)
    \/ \E r \in Runs, acts \in {"none", "ok", "malformed"}, f \in {"none", "graph_read"} :
          enrich(r, acts, f)
    \/ \E r \in Runs, ok \in BOOLEAN : assistant_responder(r, ok)
    \/ \E r \in Runs, ok \in BOOLEAN : simple_responder(r, ok)
    \/ \E r \in Runs, f \in SaveFaults : knowledge_saver(r, f)
    \/ \E r \in Runs : synthesis_node(r)
    \/ \E r \in Runs : process_thought_return(r)
    \/ \E r \in Runs, ok \in BOOLEAN : wrapper(r, ok)

Spec == Init /\ [][Next]_vars

-----------------------------------------------------------------------------
(* should_use_full_pipeline on its own: the inputs are a core text with    *)
(* whitespace around it                                                    *)

RoutePads == {"", " ", " \n"}

RouteCores ==
    simple_patterns \cup
    { "", "Hello", "THANK YOU", "Okay", "Thank you so much", "hi there",
      "call bob later", "call bob later!", "call bob later!!",
      "CALL BOB LATER", QuestionThought, LongThought }

RouteInputs == {a \o c \o b : a \in RoutePads, c \in RouteCores, b \in RoutePads}

RouteInit ==
    /\ PipelineInit
    /\ rt_thought \in RouteInputs
    /\ rt_result = ""
    /\ WorkerIdle
    /\ ResolverIdle
    /\ EntityIdle
    /\ ReviewIdle
    /\ CompressIdle
    /\ RiskIdle
    /\ NameIdle
    /\ HoleIdle
    /\ OracleIdle
    /\ EnrichIdle
    /\ ThinkIdle
    /\ SimpleIdle
    /\ QueueIdle
    /\ ContinueIdle
    /\ CandidateIdle
    /\ BatchIdle
    /\ RefineIdle
    /\ StatesIdle
    /\ ConcIdle

RouteCall ==
    /\ rt_result = ""
    /\ rt_result' = should_use_full_pipeline(rt_thought)
    /\ UNCHANGED <<pc, thought, thought_id, iters, critique, entities, response,
                   actions, trace, raised, storeVars, taskVars, rt_thought,
                   workerVars, resolverVars, entityVars, reviewVars, compressVars, riskVars, nameVars, holeVars, oracleVars, enrichVars, thinkVars, simpleVars, queueVars, continueVars, candidateVars, batchVars, refineVars, statesVars, concVars>>

SpecRoute == RouteInit /\ [][RouteCall]_vars

-----------------------------------------------------------------------------
(* background_worker on its own: any sequence of run_in_background,        *)
(* get_task_status and cleanup_completed_tasks calls, the tasks ending in  *)
(* between.  tasks[n] is the n-th task created.                            *)

MaxTasks == 3     \* number of run_in_background calls

WorkerTasks == 1..MaxTasks
TaskIds == 1..MaxTasks

\* task.done(): wrapper() has returned
TaskDone(n) == tasks[n] \in {"completed", "errored"}

\* get_task_status.  wrapper() returns a dict on both of its branches, so
\* task.result() of a done task returns and the except branch ("failed")
\* is not taken
get_task_status(task_id) ==
    LET n == pending_tasks[task_id] IN
    IF n = 0 THEN "not_found"
    ELSE IF TaskDone(n) THEN "completed"
    ELSE "running"

\* the registry without the entries whose task is done
cleanup_completed_tasks_all ==
    /\ pending_tasks' = [k \in DOMAIN pending_tasks |-> 0]
    /\ bw_op' = "cleanup"
    /\ UNCHANGED <<tasks, bw_status>>

cleanup_completed_tasks ==
    /\ pending_tasks' =
           [k \in DOMAIN pending_tasks |->
               IF pending_tasks[k] # 0 /\ TaskDone(pending_tasks[k]) THEN 0
               ELSE pending_tasks[k]]
    /\ bw_op' = "cleanup"
    /\ UNCHANGED <<tasks, bw_status>>

WorkerInit ==
    /\ CallsInit
    /\ pending_tasks = [k \in TaskIds |-> 0]
    /\ tasks = [n \in WorkerTasks |-> NoTask]
    /\ RouteIdle
    /\ WorkerIdle
    /\ ResolverIdle
    /\ EntityIdle
    /\ ReviewIdle
    /\ CompressIdle
    /\ RiskIdle
    /\ NameIdle
    /\ HoleIdle
    /\ OracleIdle
    /\ EnrichIdle
    /\ ThinkIdle
    /\ SimpleIdle
    /\ QueueIdle
    /\ ContinueIdle
    /\ CandidateIdle
    /\ BatchIdle
    /\ RefineIdle
    /\ StatesIdle
    /\ ConcIdle

\* a caller on the event loop schedules a coroutine under task_id
WorkerRun(n, task_id) ==
    /\ tasks[n] = NoTask
    /\ \A m \in WorkerTasks : m < n => tasks[m] # NoTask
    /\ run_in_background(n, task_id)
    /\ bw_op' = "run"
    /\ UNCHANGED <<pc, thought, thought_id, iters, critique, entities, response,
                   actions, trace, raised, storeVars, routeVars, bw_status,
                   resolverVars, entityVars, reviewVars, compressVars, riskVars, nameVars, holeVars, oracleVars, enrichVars, thinkVars, simpleVars, queueVars, continueVars, candidateVars, batchVars, refineVars, statesVars, concVars>>

WorkerStatus(task_id) ==
    /\ bw_op' = "status"
    /\ bw_status' = <<task_id, get_task_status(task_id)>>
    /\ UNCHANGED <<pc, thought, thought_id, iters, critique, entities, response,
                   actions, trace, raised, storeVars, taskVars, routeVars,
                   resolverVars, entityVars, reviewVars, compressVars, riskVars, nameVars, holeVars, oracleVars, enrichVars, thinkVars, simpleVars, queueVars, continueVars, candidateVars, batchVars, refineVars, statesVars, concVars>>

WorkerCleanup ==
    /\ cleanup_completed_tasks
    /\ UNCHANGED <<pc, thought, thought_id, iters, critique, entities, response,
                   actions, trace, raised, storeVars, routeVars, resolverVars,
                   entityVars, reviewVars, compressVars, riskVars, nameVars, holeVars, oracleVars, enrichVars, thinkVars, simpleVars, queueVars, continueVars, candidateVars, batchVars, refineVars, statesVars, concVars>>

WorkerNext ==
    \/ \E n \in WorkerTasks, k \in TaskIds : WorkerRun(n, k)
    \/ \E n \in WorkerTasks, ok \in BOOLEAN : wrapper(n, ok)
    \/ \E k \in TaskIds : WorkerStatus(k)
    \/ WorkerCleanup

SpecWorker == WorkerInit /\ [][WorkerNext]_vars

-----------------------------------------------------------------------------
(* entity_resolver: similarity_score (difflib.SequenceMatcher.ratio),      *)
(* has_distinguishing_context, resolve_entity                              *)

Max(S) == CHOOSE x \in S : \A y \in S : y <= x
Min(S) == CHOOSE x \in S : \A y \in S : x <= y

\* str.find, 1-based; 0 when p does not occur in s
Find(s, p) ==
    LET hits == {i \in 1..(Len(s) - Len(p) + 1) : SubSeq(s, i, i + Len(p) - 1) = p}
    IN IF hits = {} THEN 0 ELSE Min(hits)

\* length of the longest common run of a from i and b from j
RunAt(a, b, i, j) ==
    Max({k \in 0..Min({Len(a) - i + 1, Len(b) - j + 1}) :
            SubSeq(a, i, i + k - 1) = SubSeq(b, j, j + k - 1)})

\* SequenceMatcher.find_longest_match: the longest matching block, the one
\* that starts earliest in a and, of those, earliest in b
find_longest_match(a, b) ==
    LET k == Max({RunAt(a, b, i, j) : i \in 1..Len(a), j \in 1..Len(b)})
        i == Min({x \in 1..Len(a) : \E y \in 1..Len(b) : RunAt(a, b, x, y) = k})
        j == Min({y \in 1..Len(b) : RunAt(a, b, i, y) = k})
    IN [i |-> i, j |-> j, k |-> k]

\* the sum of the sizes of get_matching_blocks: the longest block, then the
\* blocks to its left and to its right
RECURSIVE MatchingChars(_, _)
MatchingChars(a, b) ==
    IF Len(a) = 0 \/ Len(b) = 0 THEN 0
    ELSE LET m == find_longest_match(a, b) IN
         IF m.k = 0 THEN 0
         ELSE m.k + MatchingChars(SubSeq(a, 1, m.i - 1), SubSeq(b, 1, m.j - 1))
                  + MatchingChars(SubSeq(a, m.i + m.k, Len(a)),
                                  SubSeq(b, m.j + m.k, Len(b)))

\* similarity_score as the fraction num/den = 2*M/T (1 for two empty strings)
similarity_score(a, b) ==
    LET la == Lower(a)
        lb == Lower(b)
    IN IF Len(la) + Len(lb) = 0 THEN [num |-> 1, den |-> 1]
       ELSE [num |-> 2 * MatchingChars(la, lb), den |-> Len(la) + Len(lb)]

ThresholdPct == 85     \* threshold = 0.85
AutoMergePct == 90     \* 0.9
WindowChars == 50

AtLeastPct(sc, pct) == sc.num * 100 >= pct * sc.den
AbovePct(sc, pct) == sc.num * 100 > pct * sc.den

distinguishing_patterns ==
    { "from ", "at ", "in ", "the ", "our ", "their ",
      "manager", "director", "lead", "head", "chief",
      "department", "team", "company", "org" }

has_distinguishing_context(new_name, existing_name, context) ==
    LET context_lower == Lower(context)
        idx == Find(context_lower, Lower(new_name))
        window == SubSeq(context_lower, Max({1, idx - WindowChars}),
                         Min({Len(context), idx - 1 + Len(new_name) + WindowChars}))
    IN \E pattern \in distinguishing_patterns :
          /\ Contains(context_lower, pattern)
          /\ idx # 0
          /\ Contains(window, pattern)

\* candidates.sort(key=(score, type_match), reverse=True)[0]: the highest
\* score, a type match before a mismatch, the earliest of equals (the
\* sort is stable)
Better(c, d) ==
    \/ c.score.num * d.score.den > d.score.num * c.score.den
    \/ /\ c.score.num * d.score.den = d.score.num * c.score.den
       /\ \/ c.type_match /\ ~d.type_match
          \/ c.type_match = d.type_match /\ c.pos < d.pos

\* resolve_entity with the context consulted at the threshold too
resolve_entity_at_threshold(entity_name, entity_type, existing_entities, context) ==
    LET entity_name_lower == Strip(Lower(entity_name))
        exact == {p \in DOMAIN existing_entities :
                     Lower(existing_entities[p].name) = entity_name_lower}
        candidates ==
            {[name |-> existing_entities[p].name,
              score |-> similarity_score(entity_name, existing_entities[p].name),
              type_match |-> Lower(existing_entities[p].type) = Lower(entity_type),
              pos |-> p] :
                p \in {q \in DOMAIN existing_entities :
                          AtLeastPct(similarity_score(entity_name, existing_entities[q].name),
                                     ThresholdPct)}}
    IN IF exact # {} THEN <<existing_entities[Min(exact)].name, FALSE>>
       ELSE IF candidates = {} THEN <<entity_name, TRUE>>
       ELSE LET best == CHOOSE c \in candidates :
                            \A d \in candidates : d = c \/ Better(c, d)
            IN IF AbovePct(best.score, AutoMergePct) /\ best.type_match
               THEN <<best.name, FALSE>>
               ELSE IF AtLeastPct(best.score, ThresholdPct)
               THEN IF has_distinguishing_context(entity_name, best.name, context)
                    THEN <<entity_name, TRUE>>
                    ELSE <<best.name, FALSE>>
               ELSE <<entity_name, TRUE>>

\* resolve_entity: <<resolved_name, is_new>>
resolve_entity(entity_name, entity_type, existing_entities, context) ==
    LET entity_name_lower == Strip(Lower(entity_name))
        exact == {p \in DOMAIN existing_entities :
                     Lower(existing_entities[p].name) = entity_name_lower}
        candidates ==
            {[name |-> existing_entities[p].name,
              score |-> similarity_score(entity_name, existing_entities[p].name),
              type_match |-> Lower(existing_entities[p].type) = Lower(entity_type),
              pos |-> p] :
                p \in {q \in DOMAIN existing_entities :
                          AtLeastPct(similarity_score(entity_name, existing_entities[q].name),
                                     ThresholdPct)}}
    IN IF exact # {} THEN <<existing_entities[Min(exact)].name, FALSE>>
       ELSE IF candidates = {} THEN <<entity_name, TRUE>>
       ELSE LET best == CHOOSE c \in candidates :
                            \A d \in candidates : d = c \/ Better(c, d)
            IN IF AbovePct(best.score, AutoMergePct) /\ best.type_match
               THEN <<best.name, FALSE>>
               ELSE IF AbovePct(best.score, ThresholdPct)
               THEN IF has_distinguishing_context(entity_name, best.name, context)
                    THEN <<entity_name, TRUE>>
                    ELSE <<best.name, FALSE>>
               ELSE <<entity_name, TRUE>>

\* resolve_entity on its own: one call, then a call on the name it returned
\* with the other arguments the same
Ent(name, type) == [name |-> name, type |-> type]

ResolveNames ==
    {"john smith", "John Smith", " John Smith ", "Jon Smith", "Apollo", "Sarah"}
ResolveTypes == {"Person", "Project"}
ResolvePopulations ==
    { <<>>,
      <<Ent("John Smith", "Person")>>,
      <<Ent("john smith", "Project"), Ent("John Smith", "Person")>>,
      <<Ent("John Smyth", "Person"), Ent("Apollo", "Project")>> }
ResolveContexts ==
    { "",
      "we met john smith",
      "John Smith from Engineering, distinct from John Smith in Marketing",
      "Jon Smith from Engineering joined" }

ResolveInit ==
    /\ PipelineInit
    /\ RouteIdle
    /\ WorkerIdle
    /\ rs_in \in { [name |-> n, type |-> t, existing |-> e, context |-> c] :
                      n \in ResolveNames, t \in ResolveTypes,
                      e \in ResolvePopulations, c \in ResolveContexts }
    /\ rs_out = <<>>
    /\ rs_again = <<>>
    /\ EntityIdle
    /\ ReviewIdle
    /\ CompressIdle
    /\ RiskIdle
    /\ NameIdle
    /\ HoleIdle
    /\ OracleIdle
    /\ EnrichIdle
    /\ ThinkIdle
    /\ SimpleIdle
    /\ QueueIdle
    /\ ContinueIdle
    /\ CandidateIdle
    /\ BatchIdle
    /\ RefineIdle
    /\ StatesIdle
    /\ ConcIdle

ResolveCall ==
    /\ rs_out = <<>>
    /\ rs_out' = resolve_entity(rs_in.name, rs_in.type, rs_in.existing, rs_in.context)
    /\ UNCHANGED <<pc, thought, thought_id, iters, critique, entities, response,
                   actions, trace, raised, storeVars, taskVars, routeVars,
                   workerVars, rs_in, rs_again, entityVars, reviewVars, compressVars, riskVars, nameVars, holeVars, oracleVars, enrichVars, thinkVars, simpleVars, queueVars, continueVars, candidateVars, batchVars, refineVars, statesVars, concVars>>

ResolveAgain ==
    /\ rs_out # <<>>
    /\ rs_again = <<>>
    /\ rs_again' = resolve_entity(rs_out[1], rs_in.type, rs_in.existing, rs_in.context)
    /\ UNCHANGED <<pc, thought, thought_id, iters, critique, entities, response,
                   actions, trace, raised, storeVars, taskVars, routeVars,
                   workerVars, rs_in, rs_out, entityVars, reviewVars, compressVars, riskVars, nameVars, holeVars, oracleVars, enrichVars, thinkVars, simpleVars, queueVars, continueVars, candidateVars, batchVars, refineVars, statesVars, concVars>>

SpecResolve == ResolveInit /\ [][ResolveCall \/ ResolveAgain]_vars

-----------------------------------------------------------------------------
(* The Entity nodes of the graph store and the three places that write    *)
(* them: add_thought (from save), store_person_profile and                *)
(* store_project_profile (from the synthesis task).  A run is reduced to  *)
(* the steps that read or write Entity nodes: extract with its            *)
(* resolution, save, and the items of its synthesis task; runs and tasks  *)
(* interleave freely.                                                      *)

MaxEsRuns == 2     \* number of runs

EsRuns == 1..MaxEsRuns

\* what extract_entities can return: the type is the model's text
ExtractorEntities ==
    { <<>>,
      <<Ent("John", "Person")>>,
      <<Ent("John", "person")>>,
      <<Ent("john", "Person"), Ent("Apollo", "Project")>>,
      <<Ent("Apollo", "Project")>>,
      <<Ent("Apollo", "Tool")>> }

\* batch_resolve_entities with the names kept compared as written
RECURSIVE batch_resolve_from_exact(_, _, _, _, _)
batch_resolve_from_exact(ents, existing, context, i, seen) ==
    IF i > Len(ents) THEN <<>>
    ELSE LET r == resolve_entity(ents[i].name, ents[i].type, existing, context) IN
         IF r[1] \in seen
         THEN batch_resolve_from_exact(ents, existing, context, i + 1, seen)
         ELSE <<[name |-> r[1], type |-> ents[i].type, is_new |-> r[2]]>>
              \o batch_resolve_from_exact(ents, existing, context, i + 1, seen \cup {r[1]})

\* batch_resolve_entities: resolve each entity, keep the first of each
\* resolved name (lower-cased); i is the next index, seen the names kept
RECURSIVE batch_resolve_from(_, _, _, _, _)
batch_resolve_from(ents, existing, context, i, seen) ==
    IF i > Len(ents) THEN <<>>
    ELSE LET r == resolve_entity(ents[i].name, ents[i].type, existing, context) IN
         IF Lower(r[1]) \in seen
         THEN batch_resolve_from(ents, existing, context, i + 1, seen)
         ELSE <<[name |-> r[1], type |-> ents[i].type, is_new |-> r[2]]>>
              \o batch_resolve_from(ents, existing, context, i + 1, seen \cup {Lower(r[1])})

batch_resolve_entities(ents, existing, context) ==
    batch_resolve_from(ents, existing, context, 1, {})

\* get_all_entities: the Entity nodes some Thought mentions (the nodes
\* add_thought wrote, which carry a key), in any order of equal counts
get_all_entities ==
    LET S == {e \in entityStore : e.key # ""}
        n == Cardinality(S)
    IN { [i \in 1..n |-> Ent(f[i].name, f[i].type)] :
            f \in {g \in [1..n -> S] : \A a, b \in 1..n : a # b => g[a] # g[b]} }

\* MERGE (e:Entity {key: $key}) SET e.name, e.type
merge_entity_by_key(store, e) ==
    LET k == Lower(e.type \o ":" \o e.name) IN
    {x \in store : x.key # k} \cup {[key |-> k, name |-> e.name, type |-> e.type]}

\* the entity loop of add_thought
RECURSIVE add_thought_entities(_, _, _)
add_thought_entities(store, ents, i) ==
    IF i > Len(ents) THEN store
    ELSE add_thought_entities(merge_entity_by_key(store, ents[i]), ents, i + 1)

\* MERGE (e:Entity {name: $name, type: 'Person'})
store_person_profile(store, name) ==
    IF \E x \in store : x.name = name /\ x.type = "Person" THEN store
    ELSE store \cup {[key |-> "", name |-> name, type |-> "Person"]}

\* MERGE (e:Entity {name: $name})
store_project_profile(store, name) ==
    IF \E x \in store : x.name = name THEN store
    ELSE store \cup {[key |-> "", name |-> name, type |-> ""]}

\* run_synthesis_pipeline: the person entities, then the project and tool
\* entities, of the list the run had at synthesize
synthesis_items(ents) ==
    [i \in DOMAIN SelectSeq(ents, LAMBDA e : Lower(e.type) = "person") |->
        <<"person", SelectSeq(ents, LAMBDA e : Lower(e.type) = "person")[i].name>>]
    \o
    [i \in DOMAIN SelectSeq(ents, LAMBDA e : Lower(e.type) \in {"project", "tool"}) |->
        <<"project", SelectSeq(ents, LAMBDA e : Lower(e.type) \in {"project", "tool"})[i].name>>]

EntityInit ==
    /\ PipelineInit
    /\ RouteIdle
    /\ WorkerIdle
    /\ ResolverIdle
    /\ entityStore = {}
    /\ es_pc = [r \in EsRuns |-> "idle"]
    /\ es_raw = [r \in EsRuns |-> <<>>]
    /\ es_ents = [r \in EsRuns |-> <<>>]
    /\ es_i = [r \in EsRuns |-> 1]
    /\ es_seen = [r \in EsRuns |-> {}]
    /\ es_added = [r \in EsRuns |-> 0]
    /\ ReviewIdle
    /\ CompressIdle
    /\ RiskIdle
    /\ NameIdle
    /\ HoleIdle
    /\ OracleIdle
    /\ EnrichIdle
    /\ ThinkIdle
    /\ SimpleIdle
    /\ QueueIdle
    /\ ContinueIdle
    /\ CandidateIdle
    /\ BatchIdle
    /\ RefineIdle
    /\ StatesIdle
    /\ ConcIdle

pipelineVars == <<pc, thought, thought_id, iters, critique, entities, response,
                  actions, trace, raised, storeVars, taskVars>>

\* knowledge_extractor: the extractor's list, resolved against
\* get_all_entities when it is not empty
EsExtract(r, raw) ==
    /\ es_pc[r] = "idle"
    /\ es_pc' = [es_pc EXCEPT ![r] = "extracted"]
    /\ es_raw' = [es_raw EXCEPT ![r] = raw]
    /\ \E existing \in get_all_entities :
          es_ents' = [es_ents EXCEPT ![r] =
                         IF raw = <<>> THEN <<>>
                         ELSE batch_resolve_entities(raw, existing, "")]
    /\ es_seen' = [es_seen EXCEPT ![r] = {q \in EsRuns : es_pc[q] \in {"synth", "done"}}]
    /\ UNCHANGED <<entityStore, es_i, es_added, pipelineVars, routeVars, workerVars,
                   resolverVars, reviewVars, compressVars, riskVars, nameVars, holeVars, oracleVars, enrichVars, thinkVars, simpleVars, queueVars, continueVars, candidateVars, batchVars, refineVars, statesVars, concVars>>

\* knowledge_saver (add_thought), then synthesis_node schedules the task
EsSave(r) ==
    /\ es_pc[r] = "extracted"
    /\ entityStore' = add_thought_entities(entityStore, es_ents[r], 1)
    /\ es_added' = [es_added EXCEPT ![r] =
                       Cardinality(entityStore') - Cardinality(entityStore)]
    /\ es_pc' = [es_pc EXCEPT ![r] = "synth"]
    /\ UNCHANGED <<es_raw, es_ents, es_i, es_seen, pipelineVars, routeVars,
                   workerVars, resolverVars, reviewVars, compressVars, riskVars, nameVars, holeVars, oracleVars, enrichVars, thinkVars, simpleVars, queueVars, continueVars, candidateVars, batchVars, refineVars, statesVars, concVars>>

\* one item of the run's synthesis task.  fault "read": find_by_entity
\* raises and the task ends; "write": the store call raises and is
\* swallowed
EsSynth(r, fault) ==
    LET items == synthesis_items(es_ents[r]) IN
    /\ es_pc[r] = "synth"
    /\ IF es_i[r] > Len(items) \/ fault = "read"
       THEN /\ es_pc' = [es_pc EXCEPT ![r] = "done"]
            /\ UNCHANGED <<entityStore, es_i>>
       ELSE /\ entityStore' =
                   IF fault = "write" THEN entityStore
                   ELSE IF items[es_i[r]][1] = "person"
                   THEN store_person_profile(entityStore, items[es_i[r]][2])
                   ELSE store_project_profile(entityStore, items[es_i[r]][2])
            /\ es_i' = [es_i EXCEPT ![r] = @ + 1]
            /\ UNCHANGED es_pc
    /\ UNCHANGED <<es_raw, es_ents, es_seen, es_added, pipelineVars, routeVars,
                   workerVars, resolverVars, reviewVars, compressVars, riskVars, nameVars, holeVars, oracleVars, enrichVars, thinkVars, simpleVars, queueVars, continueVars, candidateVars, batchVars, refineVars, statesVars, concVars>>

EntityNext ==
    \/ \E r \in EsRuns, raw \in ExtractorEntities : EsExtract(r, raw)
    \/ \E r \in EsRuns : EsSave(r)
    \/ \E r \in EsRuns, f \in {"none", "read", "write"} : EsSynth(r, f)

SpecEntities == EntityInit /\ [][EntityNext]_vars

-----------------------------------------------------------------------------
(* mark_as_reviewed (spaced repetition).  ease_factor is kept in           *)
(* hundredths; 0 stands for a null property.  Floating-point error is at  *)
(* most a few ulps per call and the clamp is applied to the computed      *)
(* value, so it does not decide on which side of the floor a stored value *)
(* lies.                                                                   *)

MaxReviews == 10     \* reviews of one thought

DefaultEasePct == 250     \* 2.5
FloorEasePct == 130       \* 1.3

ReviewIds == {"t1", "t2"}
NoThought == [count |-> -1, ef |-> 0]

quality_map(difficulty) ==
    CASE difficulty = "easy" -> 5
      [] difficulty = "medium" -> 4
      [] difficulty = "hard" -> 3
      [] OTHER -> 4

\* EF' = EF + (0.1 - (5-q)*(0.08 + (5-q)*0.02)), in hundredths
sm2_update(ef, quality) == ef + (10 - (5 - quality) * (8 + (5 - quality) * 2))

\* the review stats mark_as_reviewed writes for a thought that exists
reviewed_unclamped(stats, difficulty) ==
    [count |-> stats.count + 1,
     ef |-> sm2_update(IF stats.ef # 0 THEN stats.ef ELSE DefaultEasePct,
                       quality_map(difficulty))]

reviewed(stats, difficulty) ==
    LET current_ef == IF stats.ef # 0 THEN stats.ef ELSE DefaultEasePct
        new_ef == sm2_update(current_ef, quality_map(difficulty))
    IN [count |-> stats.count + 1,
        ef |-> IF new_ef < FloorEasePct THEN FloorEasePct ELSE new_ef]

ReviewInit ==
    /\ PipelineInit
    /\ RouteIdle
    /\ WorkerIdle
    /\ ResolverIdle
    /\ EntityIdle
    /\ rv_stats \in [ReviewIds -> {NoThought, [count |-> 0, ef |-> DefaultEasePct],
                                   [count |-> 0, ef |-> 0]}]
    /\ CompressIdle
    /\ RiskIdle
    /\ NameIdle
    /\ HoleIdle
    /\ OracleIdle
    /\ EnrichIdle
    /\ ThinkIdle
    /\ SimpleIdle
    /\ QueueIdle
    /\ ContinueIdle
    /\ CandidateIdle
    /\ BatchIdle
    /\ RefineIdle
    /\ StatesIdle
    /\ ConcIdle

\* mark_as_reviewed: nothing for an id without a Thought node
mark_as_reviewed(id, difficulty) ==
    /\ rv_stats[id] # NoThought => rv_stats[id].count < MaxReviews
    /\ rv_stats' = IF rv_stats[id] = NoThought THEN rv_stats
                   ELSE [rv_stats EXCEPT ![id] = reviewed(@, difficulty)]
    /\ UNCHANGED <<pipelineVars, routeVars, workerVars, resolverVars, entityVars,
                   compressVars, riskVars, nameVars, holeVars, oracleVars, enrichVars, thinkVars, simpleVars, queueVars, continueVars, candidateVars, batchVars, refineVars, statesVars, concVars>>

ReviewNext ==
    \E id \in ReviewIds, d \in {"easy", "medium", "hard", "again"} :
        mark_as_reviewed(id, d)

SpecReview == ReviewInit /\ [][ReviewNext]_vars

-----------------------------------------------------------------------------
(* compress_context, computed on strings.                                  *)

NL == "\n"
CompressedMarker == "\n... [context compressed] ...\n"
TruncationMark == "..."

\* str.split('\n')
RECURSIVE split(_)
split(s) ==
    LET i == Find(s, NL)
    IN IF i = 0 THEN <<s>>
       ELSE <<SubSeq(s, 1, i - 1)>> \o split(SubSeq(s, i + 1, Len(s)))

\* '\n'.join(lines)
RECURSIVE join(_)
join(lines) ==
    IF lines = <<>> THEN ""
    ELSE IF Len(lines) = 1 THEN lines[1]
    ELSE lines[1] \o NL \o join(Tail(lines))

\* the two loops: how many lines are kept, starting at line i and moving
\* by step, with chars characters already counted
RECURSIVE kept_lines(_, _, _, _, _)
kept_lines(lines, i, step, chars, half_budget) ==
    IF i < 1 \/ i > Len(lines) THEN 0
    ELSE IF chars + Len(lines[i]) < half_budget
         THEN 1 + kept_lines(lines, i + step, step, chars + Len(lines[i]) + 1,
                             half_budget)
         ELSE 0

compress_context(context_text, max_chars) ==
    IF Len(context_text) <= max_chars THEN context_text
    ELSE LET lines == split(context_text)
             half_budget == max_chars \div 2
             n_start == kept_lines(lines, 1, 1, 0, half_budget)
             n_end == kept_lines(lines, Len(lines), -1, 0, half_budget)
             result_start == SubSeq(lines, 1, n_start)
             result_end == SubSeq(lines, Len(lines) - n_end + 1, Len(lines))
         IN IF n_start > 0 /\ n_end > 0
            THEN join(result_start) \o CompressedMarker \o join(result_end)
            ELSE SubSeq(context_text, 1, Min({max_chars, Len(context_text)}))
                     \o TruncationMark

CompressLines == {"", "a", "first", "the first line", "last", "the last line!"}
CompressTexts ==
    CompressLines
    \cup { join(<<a, b>>) : a, b \in CompressLines }
    \cup { join(<<a, b, c>>) : a, b, c \in CompressLines }
CompressBudgets == {4, 10, 20, 40}

CompressInit ==
    /\ PipelineInit
    /\ RouteIdle
    /\ WorkerIdle
    /\ ResolverIdle
    /\ EntityIdle
    /\ ReviewIdle
    /\ RiskIdle
    /\ NameIdle
    /\ HoleIdle
    /\ OracleIdle
    /\ EnrichIdle
    /\ ThinkIdle
    /\ SimpleIdle
    /\ QueueIdle
    /\ ContinueIdle
    /\ CandidateIdle
    /\ BatchIdle
    /\ RefineIdle
    /\ StatesIdle
    /\ ConcIdle
    /\ cc_in \in CompressTexts \X CompressBudgets
    /\ cc_out = <<>>

CompressCall ==
    /\ cc_out = <<>>
    /\ cc_out' = <<compress_context(cc_in[1], cc_in[2])>>
    /\ UNCHANGED <<pipelineVars, routeVars, workerVars, resolverVars, entityVars,
                   reviewVars, cc_in, riskVars, nameVars, holeVars, oracleVars, enrichVars, thinkVars, simpleVars, queueVars, continueVars, candidateVars, batchVars, refineVars, statesVars, concVars>>

SpecCompress == CompressInit /\ [][CompressCall]_vars

-----------------------------------------------------------------------------
(* Project risks: the is_blocker and affected_project fields from enrich   *)
(* to the last statement of add_thought.  An optional value is <<>> for    *)
(* None (or a missing key) and <<v>> for the value v.                      *)

MaxRiskRuns == 2     \* process_thought calls

None == <<>>
Some(v) == <<v>>

\* Python truth of an optional string / an optional boolean
truthy_str(o) == o # None /\ o[1] # ""
truthy_bool(o) == o # None /\ o[1]

\* what analyze_intent_and_risk can return: the model's JSON object, whose
\* keys may be absent or null; the fixed default on a failure
IntentDefault == [is_blocker |-> Some(FALSE), affected_project_name |-> None]
IntentData ==
    [is_blocker : {None, Some(FALSE), Some(TRUE)},
     affected_project_name : {None, Some(""), Some("Apollo"), Some("Slack"),
                              Some("John"), Some("Ghost")}]

\* enrich: "is_blocker": intent_data.get("is_blocker", False),
\*         "affected_project": intent_data.get("affected_project_name")
enrich_fields(intent_data) ==
    [is_blocker |-> IF intent_data.is_blocker = None THEN Some(FALSE)
                    ELSE intent_data.is_blocker,
     affected_project |-> intent_data.affected_project_name]

\* the fields of a state that never went through enrich (simple path):
\* state.get("is_blocker", False), state.get("affected_project")
unenriched_fields == [is_blocker |-> Some(FALSE), affected_project |-> None]

RiskTypes == {"Project", "Product", "Tool"}

\* if thought.is_blocker and thought.affected_project
risk_guard_project_only(t) == truthy_str(t.affected_project)
risk_guard(t) == truthy_bool(t.is_blocker) /\ truthy_str(t.affected_project)

\* the Entity nodes the last statement of add_thought matches
risk_targets(nodes, t) ==
    IF risk_guard(t)
    THEN {p \in nodes : p.name = t.affected_project[1] /\ p.type \in RiskTypes}
    ELSE {}

\* the entity loop of add_thought on nodes with a status: MERGE on the key,
\* SET name, type, description (status is not touched)
RECURSIVE risk_merge_entities(_, _, _)
risk_merge_entities(nodes, ents, i) ==
    IF i > Len(ents) THEN nodes
    ELSE LET e == ents[i]
             hit == {p \in nodes : Lower(p.type \o ":" \o p.name)
                                     = Lower(e.type \o ":" \o e.name)}
             st == IF hit = {} THEN "none" ELSE (CHOOSE p \in hit : TRUE).status
         IN risk_merge_entities(
                (nodes \ hit) \cup {[name |-> e.name, type |-> e.type, status |-> st]},
                ents, i + 1)

RiskEntityLists == {<<>>, <<Ent("Apollo", "Project")>>, <<Ent("apollo", "Project")>>}

RiskInit ==
    /\ PipelineInit
    /\ RouteIdle
    /\ WorkerIdle
    /\ ResolverIdle
    /\ EntityIdle
    /\ ReviewIdle
    /\ CompressIdle
    /\ NameIdle
    /\ HoleIdle
    /\ OracleIdle
    /\ EnrichIdle
    /\ ThinkIdle
    /\ SimpleIdle
    /\ QueueIdle
    /\ ContinueIdle
    /\ CandidateIdle
    /\ BatchIdle
    /\ RefineIdle
    /\ StatesIdle
    /\ ConcIdle
    /\ rk_nodes = {[name |-> "Slack", type |-> "Tool", status |-> "none"],
                   [name |-> "John", type |-> "Person", status |-> "none"]}
    /\ rk_blocks = {}
    /\ rk_state = <<>>
    /\ rk_saved = <<>>

riskOthers == <<pipelineVars, routeVars, workerVars, resolverVars, entityVars,
                reviewVars, compressVars, nameVars, holeVars, oracleVars, enrichVars, thinkVars, simpleVars, queueVars, continueVars, candidateVars, batchVars, refineVars, statesVars, concVars>>

\* a run up to save: the simple path skips enrich; on the full path enrich
\* takes what analyze_intent_and_risk returned
RiskEnrich(path, intent_data, ents) ==
    /\ rk_state = <<>>
    /\ Len(rk_saved) < MaxRiskRuns
    /\ path = "simple" => intent_data = IntentDefault /\ ents = <<>>
    /\ rk_state' = <<[entities |-> ents] @@
                      (IF path = "simple" THEN unenriched_fields
                       ELSE enrich_fields(intent_data))>>
    /\ UNCHANGED <<rk_nodes, rk_blocks, rk_saved, riskOthers>>

\* knowledge_saver: add_thought with the state's fields
RiskSave ==
    /\ rk_state # <<>>
    /\ LET t == rk_state[1]
           id == Len(rk_saved) + 1
           merged == risk_merge_entities(rk_nodes, t.entities, 1)
           hit == risk_targets(merged, t)
       IN /\ rk_nodes' = (merged \ hit)
                          \cup {[p EXCEPT !.status = "at_risk"] : p \in hit}
          /\ rk_blocks' = rk_blocks \cup {<<id, p.name, p.type>> : p \in hit}
          /\ rk_saved' = Append(rk_saved, t)
    /\ rk_state' = <<>>
    /\ UNCHANGED riskOthers

RiskNext ==
    \/ \E path \in {"simple", "full"}, intent_data \in IntentData \cup {IntentDefault},
          ents \in RiskEntityLists :
           RiskEnrich(path, intent_data, ents)
    \/ RiskSave

SpecRisk == RiskInit /\ [][RiskNext]_vars

-----------------------------------------------------------------------------
(* The names of the entities of a run, from the model's JSON to the        *)
(* Thought written by save: extract_entities, batch_resolve_entities,      *)
(* refine_extraction, add_thought.  The Entity nodes are entityStore.      *)

MaxNameRuns == 2     \* process_thought calls

\* a JSON entity object of the model: "name" absent or null (None), or a string
JsonEnt(name, type) == [name |-> name, type |-> type]

JsonEntityLists ==
    { <<>>,
      <<JsonEnt(Some(""), "Person")>>,
      <<JsonEnt(None, "Person"), JsonEnt(Some("John"), "Person")>>,
      <<JsonEnt(Some(" "), "Concept")>>,
      <<JsonEnt(Some("john"), "Person"), JsonEnt(Some(""), "Project")>>,
      <<JsonEnt(Some("Apollo"), "Project")>> }

\* [Entity(name=e.get("name", ""), ...) for e in entities_data]: without
\* the condition of the comprehension
parse_entities_unfiltered(entities_data) ==
    [i \in DOMAIN entities_data |->
        Ent(IF entities_data[i].name = None THEN "" ELSE entities_data[i].name[1],
            entities_data[i].type)]

\* [Entity(name=e.get("name", ""), ...) for e in entities_data if e.get("name")]
parse_entities(entities_data) ==
    LET kept == SelectSeq(entities_data, LAMBDA e : truthy_str(e.name))
    IN [i \in DOMAIN kept |-> Ent(kept[i].name[1], kept[i].type)]

\* extract_entities: [] when the call or the parse fails
extract_entities(oracle_ok, entities_data) ==
    IF oracle_ok THEN parse_entities(entities_data) ELSE <<>>

NameCritiques == {"Missing: Sarah (Person).", "Looks good, but a person is missing."}

NameInit ==
    /\ PipelineInit
    /\ RouteIdle
    /\ WorkerIdle
    /\ ResolverIdle
    /\ EntityIdle
    /\ ReviewIdle
    /\ CompressIdle
    /\ RiskIdle
    /\ HoleIdle
    /\ OracleIdle
    /\ EnrichIdle
    /\ ThinkIdle
    /\ SimpleIdle
    /\ QueueIdle
    /\ ContinueIdle
    /\ CandidateIdle
    /\ BatchIdle
    /\ RefineIdle
    /\ StatesIdle
    /\ ConcIdle
    /\ nm_pc = "idle"
    /\ nm_ents = <<>>
    /\ nm_dropped = FALSE
    /\ nm_saved = <<>>
    /\ nm_resolved = <<>>

nameOthers == <<pipelineVars, routeVars, workerVars, resolverVars, es_pc, es_raw,
                es_ents, es_i, es_seen, es_added, reviewVars, compressVars, riskVars,
                holeVars, oracleVars, enrichVars, thinkVars, simpleVars, queueVars, continueVars, candidateVars, batchVars, refineVars, statesVars, concVars>>

\* [Entity(name=e["name"], type=e["type"], ...) for e in resolved_entities]
entities_of(resolved_entities) ==
    [i \in DOMAIN resolved_entities |->
        Ent(resolved_entities[i].name, resolved_entities[i].type)]

\* the entities knowledge_extractor puts in the state
extracted_entities(ents, existing_entities) ==
    IF ents = <<>> THEN <<>>
    ELSE entities_of(batch_resolve_entities(ents, existing_entities, ""))

\* knowledge_extractor
NameExtract(oracle_ok, entities_data) ==
    /\ nm_pc = "idle"
    /\ Len(nm_saved) < MaxNameRuns
    /\ \E existing \in get_all_entities :
          nm_ents' = extracted_entities(extract_entities(oracle_ok, entities_data),
                                        existing)
    /\ nm_resolved' = nm_ents'
    /\ nm_dropped' = (oracle_ok /\ Len(parse_entities(entities_data)) < Len(entities_data))
    /\ nm_pc' = "extracted"
    /\ UNCHANGED <<entityStore, nm_saved, nameOthers>>

\* refinement_node (taken at most once in a run)
NameRefine(crit, oracle_ok, entities_data) ==
    /\ nm_pc = "extracted"
    /\ nm_ents' = refine_extraction(nm_ents, crit, oracle_ok, parse_entities(entities_data))
    /\ nm_dropped' = (nm_dropped \/ (nm_ents' # nm_ents
                        /\ Len(parse_entities(entities_data)) < Len(entities_data)))
    /\ nm_pc' = "refined"
    /\ UNCHANGED <<entityStore, nm_saved, nm_resolved, nameOthers>>

\* knowledge_saver: add_thought with the entities of the state
NameSave ==
    /\ nm_pc \in {"extracted", "refined"}
    /\ entityStore' = add_thought_entities(entityStore, nm_ents, 1)
    /\ nm_saved' = Append(nm_saved, [entities |-> nm_ents, dropped |-> nm_dropped,
                                      resolved |-> nm_resolved])
    /\ nm_resolved' = <<>>
    /\ nm_pc' = "idle"
    /\ nm_ents' = <<>>
    /\ nm_dropped' = FALSE
    /\ UNCHANGED nameOthers

NameNext ==
    \/ \E oracle_ok \in BOOLEAN, entities_data \in JsonEntityLists :
           NameExtract(oracle_ok, entities_data)
    \/ \E crit \in NameCritiques, oracle_ok \in BOOLEAN, entities_data \in JsonEntityLists :
           NameRefine(crit, oracle_ok, entities_data)
    \/ NameSave

SpecNames == NameInit /\ [][NameNext]_vars

-----------------------------------------------------------------------------
(* Structural holes: find_structural_holes and get_serendipity_nudges over *)
(* the MENTIONS edges of the stored thoughts.  A stored thought is the     *)
(* list of the names of the Entity nodes it mentions.                      *)

MaxHoleThoughts == 3     \* stored thoughts

DefaultHoleLimit == 3

HoleEntityLists ==
    { <<"John", "Sarah", "Apollo", "Mars">>,
      <<"Apollo", "Mars">>,
      <<"John", "Sarah">>,
      <<"Sarah">> }

HoleQueries ==
    { <<>>, <<"John">>, <<"SARAH">>, <<"john", "Apollo">>, <<"John", "john", "Apollo">> }

HoleLimits == {1, DefaultHoleLimit}

\* toLower / str.lower of the names in use
HoleNames == {"John", "john", "SARAH", "Sarah", "Apollo", "Mars"}
lower_name == [n \in HoleNames |-> Lower(n)]

Range(f) == {f[i] : i \in DOMAIN f}

\* the thoughts that mention both nodes
shared(stored, a, b) == {t \in DOMAIN stored : a \in Range(stored[t]) /\ b \in Range(stored[t])}

\* UNWIND $entities ... MATCH (a)<-(t)->(b) WHERE ... WITH b, a, count(t):
\* one row per element of the list that names a, per thought
hole_rows(stored, new_thought_entities) ==
    LET nodes == UNION {Range(stored[t]) : t \in DOMAIN stored}
        entities_lower == {lower_name[new_thought_entities[i]] : i \in DOMAIN new_thought_entities}
        unwound(a) == Cardinality({i \in DOMAIN new_thought_entities :
                                      lower_name[new_thought_entities[i]] = lower_name[a]})
    IN { [disconnected_topic |-> b, connected_via |-> a,
          shared_thoughts |-> unwound(a) * Cardinality(shared(stored, a, b))] :
           <<a, b>> \in {p \in nodes \X nodes :
                           /\ unwound(p[1]) > 0
                           /\ lower_name[p[2]] \notin entities_lower
                           /\ p[1] # p[2]
                           /\ shared(stored, p[1], p[2]) # {}} }

\* ORDER BY shared_thoughts DESC: any order of the rows that is descending
descending(rows) ==
    LET n == Cardinality(rows) IN
    { f \in [1..n -> rows] :
        /\ \A i, j \in 1..n : i # j => f[i] # f[j]
        /\ \A i, j \in 1..n : i < j => f[i].shared_thoughts >= f[j].shared_thoughts }

\* find_structural_holes: the lists it can return
find_structural_holes(stored, new_thought_entities, limit) ==
    IF new_thought_entities = <<>> THEN {<<>>}
    ELSE { SubSeq(f, 1, Min({limit, Len(f)})) :
             f \in descending(hole_rows(stored, new_thought_entities)) }

NudgeTexts == {"Could Apollo benefit from Mars?"}

\* the fallback text of generate_serendipity_nudge
template(new_topic, disconnected_topic, connected_via) ==
    "Is your idea about '" \o new_topic \o "' related to '" \o disconnected_topic
    \o "'? They share a connection through '" \o connected_via \o "'."

generate_serendipity_nudge(oracle_ok, text, new_topic, disconnected_topic, connected_via) ==
    IF oracle_ok THEN text ELSE template(new_topic, disconnected_topic, connected_via)

\* the loop of get_serendipity_nudges that forgets a hole whose generation failed
nudges_dropping_failures(holes, new_thought_entities, oks, text) ==
    LET kept == SelectSeq([i \in DOMAIN holes |-> <<holes[i], oks[i]>>], LAMBDA p : p[2])
    IN [i \in DOMAIN kept |->
          [type |-> "serendipity", message |-> text,
           disconnected_topic |-> kept[i][1].disconnected_topic,
           connected_via |-> kept[i][1].connected_via,
           strength |-> kept[i][1].shared_thoughts]]

\* the loop of get_serendipity_nudges over the holes
nudges_for(holes, new_thought_entities, oks, text) ==
    [i \in DOMAIN holes |->
        [type |-> "serendipity",
         message |-> generate_serendipity_nudge(
                         oks[i], text,
                         IF new_thought_entities # <<>> THEN new_thought_entities[1]
                         ELSE "your idea",
                         holes[i].disconnected_topic, holes[i].connected_via),
         disconnected_topic |-> holes[i].disconnected_topic,
         connected_via |-> holes[i].connected_via,
         strength |-> holes[i].shared_thoughts]]

HoleInit ==
    /\ PipelineInit
    /\ RouteIdle
    /\ WorkerIdle
    /\ ResolverIdle
    /\ EntityIdle
    /\ ReviewIdle
    /\ CompressIdle
    /\ RiskIdle
    /\ NameIdle
    /\ OracleIdle
    /\ EnrichIdle
    /\ ThinkIdle
    /\ SimpleIdle
    /\ QueueIdle
    /\ ContinueIdle
    /\ CandidateIdle
    /\ BatchIdle
    /\ RefineIdle
    /\ StatesIdle
    /\ ConcIdle
    /\ hl_stored = <<>>
    /\ hl_query = <<>>
    /\ hl_holes = <<>>
    /\ hl_oks = <<>>
    /\ hl_nudges = <<>>

holeOthers == <<pipelineVars, routeVars, workerVars, resolverVars, entityVars,
                reviewVars, compressVars, riskVars, nameVars,
                oracleVars, enrichVars, thinkVars, simpleVars, queueVars, continueVars, candidateVars, batchVars, refineVars, statesVars, concVars>>

\* a thought is stored with its MENTIONS edges.  The record of a call is
\* of the store as it is: it is cleared here, and one call is recorded
\* between two stores (a call reads the store and changes nothing)
HoleStore(ents) ==
    /\ Len(hl_stored) < MaxHoleThoughts
    /\ hl_stored' = Append(hl_stored, ents)
    /\ hl_query' = <<>>
    /\ hl_holes' = <<>>
    /\ hl_oks' = <<>>
    /\ hl_nudges' = <<>>
    /\ UNCHANGED holeOthers

\* a call of find_structural_holes
HoleFind(new_thought_entities, limit) ==
    /\ hl_stored # <<>>
    /\ hl_query = <<>>
    /\ hl_query' = <<new_thought_entities, limit>>
    /\ hl_holes' \in find_structural_holes(hl_stored, new_thought_entities, limit)
    /\ hl_oks' = <<>>
    /\ hl_nudges' = <<>>
    /\ UNCHANGED <<hl_stored, holeOthers>>

\* a call of get_serendipity_nudges; oks: which generations succeed
HoleNudges(new_thought_entities) ==
    /\ hl_stored # <<>>
    /\ hl_query = <<>>
    /\ hl_query' = <<new_thought_entities, DefaultHoleLimit>>
    /\ hl_holes' \in find_structural_holes(hl_stored, new_thought_entities, DefaultHoleLimit)
    /\ hl_oks' \in [DOMAIN hl_holes' -> BOOLEAN]
    /\ \E text \in NudgeTexts :
          hl_nudges' = nudges_for(hl_holes', new_thought_entities, hl_oks', text)
    /\ UNCHANGED <<hl_stored, holeOthers>>

HoleNext ==
    \/ \E ents \in HoleEntityLists : HoleStore(ents)
    \/ \E q \in HoleQueries, limit \in HoleLimits : HoleFind(q, limit)
    \/ \E q \in HoleQueries : HoleNudges(q)

SpecHoles == HoleInit /\ [][HoleNext]_vars

-----------------------------------------------------------------------------
(* Oracle failures in extract, reflect and refine: one run from extract    *)
(* to the edge into enrich, with the outcome of each model call.           *)

OracleInit ==
    /\ PipelineInit
    /\ RouteIdle
    /\ WorkerIdle
    /\ ResolverIdle
    /\ EntityIdle
    /\ ReviewIdle
    /\ CompressIdle
    /\ RiskIdle
    /\ NameIdle
    /\ HoleIdle
    /\ EnrichIdle
    /\ ThinkIdle
    /\ SimpleIdle
    /\ QueueIdle
    /\ ContinueIdle
    /\ CandidateIdle
    /\ BatchIdle
    /\ RefineIdle
    /\ StatesIdle
    /\ ConcIdle
    /\ ox_thought \in {QuestionThought, LongThought}
    /\ ox_pc = "extract"
    /\ ox_ents = <<>>
    /\ ox_crit = ""
    /\ ox_iters = 0
    /\ ox_last = <<>>
    /\ ox_failed = {}

oracleOthers == <<pipelineVars, routeVars, workerVars, resolverVars, entityVars,
                  reviewVars, compressVars, riskVars, nameVars, holeVars,
                  enrichVars, thinkVars, simpleVars, queueVars, continueVars, candidateVars, batchVars, refineVars, statesVars, concVars>>

\* knowledge_extractor, on a store without entities
OracleExtract(oracle_ok, entities_data) ==
    /\ ox_pc = "extract"
    /\ ox_ents' = extracted_entities(extract_entities(oracle_ok, entities_data), <<>>)
    /\ ox_pc' = "reflect"
    /\ ox_last' = <<"extract", oracle_ok, ox_ents>>
    /\ ox_failed' = IF oracle_ok THEN ox_failed ELSE ox_failed \cup {"extract"}
    /\ UNCHANGED <<ox_thought, ox_crit, ox_iters, oracleOthers>>

\* reflection_node and the edge should_continue_reflection
OracleReflect(oracle_ok, text) ==
    /\ ox_pc = "reflect"
    /\ ox_crit' = critique_extraction(oracle_ok, text)
    /\ ox_iters' = ox_iters + 1
    /\ ox_pc' = IF should_continue_reflection(ox_crit', ox_iters', Len(ox_ents), ox_thought)
                     = "refine"
                THEN "refine" ELSE "enrich"
    /\ ox_last' = <<"reflect", oracle_ok, ox_ents>>
    /\ ox_failed' = IF oracle_ok THEN ox_failed ELSE ox_failed \cup {"reflect"}
    /\ UNCHANGED <<ox_thought, ox_ents, oracleOthers>>

\* refinement_node; the model is called unless the critique is trivial
OracleRefine(oracle_ok, entities_data) ==
    /\ ox_pc = "refine"
    /\ (StartsWith(Lower(ox_crit), "looks good") \/ Len(ox_crit) < TrivialCritiqueLen)
           => oracle_ok
    /\ ox_ents' = refine_extraction(ox_ents, ox_crit, oracle_ok, parse_entities(entities_data))
    /\ ox_pc' = "reflect"
    /\ ox_last' = <<"refine", oracle_ok, ox_ents>>
    /\ ox_failed' = IF oracle_ok THEN ox_failed ELSE ox_failed \cup {"refine"}
    /\ UNCHANGED <<ox_thought, ox_crit, ox_iters, oracleOthers>>

OracleNext ==
    \/ \E oracle_ok \in BOOLEAN, entities_data \in JsonEntityLists :
           OracleExtract(oracle_ok, entities_data)
    \/ \E oracle_ok \in BOOLEAN, text \in Critiques : OracleReflect(oracle_ok, text)
    \/ \E oracle_ok \in BOOLEAN, entities_data \in JsonEntityLists :
           OracleRefine(oracle_ok, entities_data)

SpecOracle == OracleInit /\ [][OracleNext]_vars

-----------------------------------------------------------------------------
(* enrich and its three analyzers.  The outcome of an analyzer's model     *)
(* call is "ok", "call_fail" (llm.invoke raises) or "parse_fail" (the      *)
(* text holds no JSON object, or json.loads raises).                       *)

AnalyzerOutcomes == {"ok", "call_fail", "parse_fail"}

\* analyze_intent_and_risk without the handler around the parse
analyze_intent_and_risk_unguarded_parse(outcome, data) ==
    IF outcome = "call_fail" THEN IntentDefault ELSE data

analyze_intent_and_risk(outcome, data) ==
    IF outcome = "ok" THEN data ELSE IntentDefault

\* find_social_connections: no call without topics or without people
find_social_connections(topics, people_profiles, outcome, nudges) ==
    IF topics = <<>> \/ people_profiles = <<>> THEN <<>>
    ELSE IF outcome = "ok" THEN nudges ELSE <<>>

audit_actionability(outcome, acts) ==
    IF outcome = "ok" THEN acts ELSE <<>>

EnrichNudges == {<<>>, <<[person_name |-> "Sarah", reason |-> "budget"]>>}
EnrichActions == {<<>>, <<[description |-> "Book the room", urgency |-> 2]>>}
EnrichTopics == {<<>>, <<"budget">>}
EnrichPeople == <<[name |-> "Sarah", role |-> "Finance"]>>
EnrichReadFaults == {"none", "get_synthesized_projects", "get_people"}

EnrichInit ==
    /\ PipelineInit
    /\ RouteIdle
    /\ WorkerIdle
    /\ ResolverIdle
    /\ EntityIdle
    /\ ReviewIdle
    /\ CompressIdle
    /\ RiskIdle
    /\ NameIdle
    /\ HoleIdle
    /\ OracleIdle
    /\ ThinkIdle
    /\ SimpleIdle
    /\ QueueIdle
    /\ ContinueIdle
    /\ CandidateIdle
    /\ BatchIdle
    /\ RefineIdle
    /\ StatesIdle
    /\ ConcIdle
    /\ en_pc = "enrich"
    /\ en_in = <<>>
    /\ en_out = <<>>

enrichOthers == <<pipelineVars, routeVars, workerVars, resolverVars, entityVars,
                  reviewVars, compressVars, riskVars, nameVars, holeVars, oracleVars,
                  thinkVars, simpleVars, queueVars, continueVars, candidateVars, batchVars, refineVars, statesVars, concVars>>

\* enrich.  call: what the three model calls do and return, the topics of
\* the state's entities, and the graph read that raises, if any
EnrichCall(call) ==
    /\ en_pc = "enrich"
    /\ en_in' = <<call>>
    /\ IF call.read_fault # "none"
       THEN /\ en_pc' = "failed"
            /\ en_out' = <<>>
       ELSE /\ en_pc' = "respond"
            /\ en_out' =
                 <<[is_blocker |-> enrich_fields(
                        analyze_intent_and_risk(call.intent, call.intent_data)).is_blocker,
                    affected_project |-> enrich_fields(
                        analyze_intent_and_risk(call.intent, call.intent_data)).affected_project,
                    nudges |-> find_social_connections(call.topics, EnrichPeople,
                                                       call.social, call.nudges),
                    actions |-> audit_actionability(call.audit, call.acts)]>>
    /\ UNCHANGED enrichOthers

EnrichCalls ==
    [intent : AnalyzerOutcomes, intent_data : IntentData,
     social : AnalyzerOutcomes, nudges : EnrichNudges, topics : EnrichTopics,
     audit : AnalyzerOutcomes, acts : EnrichActions,
     read_fault : EnrichReadFaults]

\* assistant_responder is reached
EnrichRespond ==
    /\ en_pc = "respond"
    /\ en_pc' = "responding"
    /\ UNCHANGED <<en_in, en_out, enrichOthers>>

EnrichNext ==
    \/ \E call \in EnrichCalls : EnrichCall(call)
    \/ EnrichRespond

SpecEnrich == EnrichInit /\ [][EnrichNext]_vars

-----------------------------------------------------------------------------
(* The /api/think endpoint in front of process_thought.  The stages of the *)
(* graph are taken one at a time; a stage may raise, and think turns what  *)
(* process_thought raises into a 500.                                      *)

MaxThinkCalls == 2     \* number of requests

ThinkInputs == {"", " ", " \n\t ", "hi", " hi ", "hello\n", QuestionThought}

\* the guard of think that tests only the falsy string
rejects_falsy_only(t) == t = ""

\* the guard of think: not request.thought or not request.thought.strip()
rejects(t) == t = "" \/ Strip(t) = ""

\* the edges of build_graph out of `stage`; from reflect both branches of
\* should_continue_reflection, refine taken at most once here
graph_edges(stage, t, seen) ==
    CASE stage = "load_context" ->
             {IF should_use_full_pipeline(t) = "simple" THEN "simple" ELSE "extract"}
      [] stage = "extract" -> {"reflect"}
      [] stage = "reflect" ->
             IF \E i \in 1..Len(seen) : seen[i] = "refine"
             THEN {"enrich"} ELSE {"refine", "enrich"}
      [] stage = "refine" -> {"reflect"}
      [] stage = "enrich" -> {"respond"}
      [] stage = "respond" -> {"save"}
      [] stage = "simple" -> {"save"}
      [] stage = "save" -> {"synthesize"}
      [] stage = "synthesize" -> {"end"}

EmptyThinkStore == [thoughts |-> {}, index |-> {}, log |-> <<>>]

ThinkInit ==
    /\ PipelineInit
    /\ RouteIdle
    /\ WorkerIdle
    /\ ResolverIdle
    /\ EntityIdle
    /\ ReviewIdle
    /\ CompressIdle
    /\ RiskIdle
    /\ NameIdle
    /\ HoleIdle
    /\ OracleIdle
    /\ EnrichIdle
    /\ SimpleIdle
    /\ QueueIdle
    /\ ContinueIdle
    /\ CandidateIdle
    /\ BatchIdle
    /\ RefineIdle
    /\ StatesIdle
    /\ ConcIdle
    /\ th_pc = "ready"
    /\ th_req = <<>>
    /\ th_trace = <<>>
    /\ th_store = EmptyThinkStore
    /\ th_calls = 0

thinkOthers == <<pipelineVars, routeVars, workerVars, resolverVars, entityVars,
                 reviewVars, compressVars, riskVars, nameVars, holeVars, oracleVars,
                 enrichVars, simpleVars, queueVars, continueVars, candidateVars, batchVars, refineVars, statesVars, concVars>>

\* think, up to the call of process_thought: 400 for an empty thought,
\* else process_thought(request.thought.strip()) starts at load_context
think(raw) ==
    /\ th_pc = "ready"
    /\ th_calls < MaxThinkCalls
    /\ th_calls' = th_calls + 1
    /\ th_trace' = <<>>
    /\ IF rejects(raw)
       THEN /\ th_req' = <<[raw |-> raw, thought |-> "", status |-> 400]>>
            /\ th_pc' = "ready"
       ELSE /\ th_req' = <<[raw |-> raw, thought |-> Strip(raw), status |-> 0]>>
            /\ th_pc' = "load_context"
    /\ UNCHANGED <<th_store, thinkOthers>>

\* one node of the graph runs on the thought of the request; save writes
\* the thought to the graph, the vector index and the conversation log
ThinkStage(ok, next) ==
    /\ th_pc \notin {"ready", "end"}
    /\ th_req # <<>>
    /\ next \in graph_edges(th_pc, th_req[1].thought, th_trace)
    /\ th_trace' = Append(th_trace, th_pc)
    /\ IF ok
       THEN /\ th_pc' = next
            /\ th_req' = th_req
            /\ th_store' =
                 IF th_pc = "save"
                 THEN [thoughts |-> th_store.thoughts \cup {th_req[1].thought},
                       index |-> th_store.index \cup {th_req[1].thought},
                       log |-> Append(th_store.log, th_req[1].thought)]
                 ELSE th_store
       ELSE /\ th_pc' = "ready"
            /\ th_req' = <<[th_req[1] EXCEPT !.status = 500]>>
            /\ th_store' = th_store
    /\ UNCHANGED <<th_calls, thinkOthers>>

\* process_thought returned: think answers with the ThoughtResponse
ThinkRespond ==
    /\ th_pc = "end"
    /\ th_pc' = "ready"
    /\ th_req' = <<[th_req[1] EXCEPT !.status = 200]>>
    /\ UNCHANGED <<th_trace, th_store, th_calls, thinkOthers>>

ThinkStages ==
    {"simple", "extract", "reflect", "refine", "enrich", "respond", "save",
     "synthesize", "end"}

ThinkNext ==
    \/ \E raw \in ThinkInputs : think(raw)
    \/ \E ok \in BOOLEAN, next \in ThinkStages : ThinkStage(ok, next)
    \/ ThinkRespond

SpecThink == ThinkInit /\ [][ThinkNext]_vars

-----------------------------------------------------------------------------
(* Runs on the simple path and the Entity nodes.  A run is reduced to the  *)
(* steps that set or write its entity list: the route, simple_responder    *)
(* (or, on the full path, the stages from extract to respond taken as      *)
(* one), save, synthesize and the items of its synthesis task.             *)

MaxSimpleRuns == 2     \* number of process_thought calls

SimpleRunIds == 1..MaxSimpleRuns

SimpleThoughts == {"hi", "hello", LongThought}

\* the route of each of them
SimpleRouteOf == [t \in SimpleThoughts |-> should_use_full_pipeline(t)]

\* the entity lists the full path can leave in the state
SimpleFullEntities ==
    { <<Ent("John", "Person")>>,
      <<Ent("John", "Person"), Ent("Apollo", "Project")>> }

\* a simple_responder that returns an entity for the user
simple_entities_greeted == <<Ent("User", "Person")>>

\* simple_responder: "entities": []
simple_entities == <<>>

\* the Entity nodes before the first call: none, or those an earlier
\* add_thought wrote
SimpleStores ==
    {{}, add_thought_entities({}, <<Ent("John", "Person"), Ent("Apollo", "Project")>>, 1)}

NoSimpleTask == [st |-> "none", ents |-> <<>>, i |-> 1]

SimpleInit ==
    /\ PipelineInit
    /\ RouteIdle
    /\ WorkerIdle
    /\ ResolverIdle
    /\ EntityIdle
    /\ ReviewIdle
    /\ CompressIdle
    /\ RiskIdle
    /\ NameIdle
    /\ HoleIdle
    /\ OracleIdle
    /\ EnrichIdle
    /\ ThinkIdle
    /\ QueueIdle
    /\ ContinueIdle
    /\ CandidateIdle
    /\ BatchIdle
    /\ RefineIdle
    /\ StatesIdle
    /\ ConcIdle
    /\ sp_pc = "ready"
    /\ sp_ents = <<>>
    /\ sp_runs = <<>>
    /\ sp_thoughts = {}
    /\ sp_entities \in SimpleStores
    /\ sp_tasks = [k \in SimpleRunIds |-> NoSimpleTask]
    /\ sp_writers = {}

simpleOthers == <<pipelineVars, routeVars, workerVars, resolverVars, entityVars,
                  reviewVars, compressVars, riskVars, nameVars, holeVars, oracleVars,
                  enrichVars, thinkVars, queueVars, continueVars, candidateVars, batchVars, refineVars, statesVars, concVars>>

SimpleEnd(status) ==
    /\ sp_pc' = "ready"
    /\ sp_runs' = [sp_runs EXCEPT ![Len(sp_runs)].status = status]

\* process_thought: "entities": [] in the initial state; load_context
\* only reads; then the route
SimpleStart(t) ==
    /\ sp_pc = "ready"
    /\ Len(sp_runs) < MaxSimpleRuns
    /\ sp_runs' = Append(sp_runs, [thought |-> t,
                                   route |-> SimpleRouteOf[t],
                                   status |-> "running"])
    /\ sp_ents' = <<>>
    /\ sp_pc' = IF SimpleRouteOf[t] = "simple" THEN "simple" ELSE "extract"
    /\ UNCHANGED <<sp_thoughts, sp_entities, sp_tasks, sp_writers, simpleOthers>>

\* simple_responder; llm.ainvoke is not guarded
SimpleRespond(oracle_ok) ==
    /\ sp_pc = "simple"
    /\ IF oracle_ok
       THEN /\ sp_pc' = "save"
            /\ sp_ents' = simple_entities
            /\ sp_runs' = sp_runs
       ELSE /\ SimpleEnd("failed")
            /\ sp_ents' = <<>>
    /\ UNCHANGED <<sp_thoughts, sp_entities, sp_tasks, sp_writers, simpleOthers>>

\* the full path from extract to respond: the state has the entity list
\* that extraction and refinement left
SimpleFullStages(ents) ==
    /\ sp_pc = "extract"
    /\ sp_pc' = "save"
    /\ sp_ents' = ents
    /\ UNCHANGED <<sp_runs, sp_thoughts, sp_entities, sp_tasks, sp_writers, simpleOthers>>

\* knowledge_saver: add_thought writes the Thought node and the Entity
\* nodes of the state's list
SimpleSave(graph_ok) ==
    /\ sp_pc = "save"
    /\ IF graph_ok
       THEN /\ sp_thoughts' = sp_thoughts \cup
                  {[id |-> Len(sp_runs), content |-> sp_runs[Len(sp_runs)].thought,
                    entities |-> sp_ents]}
            /\ sp_entities' = add_thought_entities(sp_entities, sp_ents, 1)
            /\ sp_pc' = "synthesize"
            /\ UNCHANGED <<sp_runs, sp_ents>>
       ELSE /\ SimpleEnd("failed")
            /\ sp_ents' = <<>>
            /\ UNCHANGED <<sp_thoughts, sp_entities>>
    /\ sp_writers' = IF sp_entities' # sp_entities
                     THEN sp_writers \cup {Len(sp_runs)} ELSE sp_writers
    /\ UNCHANGED <<sp_tasks, simpleOthers>>

\* synthesis_node schedules run_synthesis_pipeline with the state's
\* entities; the graph ends and process_thought returns
SimpleSynthesize ==
    /\ sp_pc = "synthesize"
    /\ sp_tasks' = [sp_tasks EXCEPT ![Len(sp_runs)] =
                        [st |-> "running", ents |-> sp_ents, i |-> 1]]
    /\ SimpleEnd("returned")
    /\ sp_ents' = <<>>
    /\ UNCHANGED <<sp_thoughts, sp_entities, sp_writers, simpleOthers>>

\* one item of the synthesis task of run k; after the last one the meeting
\* check, which writes Meeting nodes only.  fault "read": find_by_entity
\* raises and the task ends; "write": the store call raises and is
\* swallowed
SimpleSynthItem(k, fault) ==
    LET items == synthesis_items(sp_tasks[k].ents) IN
    /\ sp_tasks[k].st = "running"
    /\ fault # "none" => sp_tasks[k].i <= Len(items)
    /\ IF sp_tasks[k].i > Len(items) \/ fault = "read"
       THEN /\ sp_tasks' = [sp_tasks EXCEPT ![k].st = "done"]
            /\ sp_entities' = sp_entities
       ELSE /\ sp_entities' =
                   IF fault = "write" THEN sp_entities
                   ELSE IF items[sp_tasks[k].i][1] = "person"
                   THEN store_person_profile(sp_entities, items[sp_tasks[k].i][2])
                   ELSE store_project_profile(sp_entities, items[sp_tasks[k].i][2])
            /\ sp_tasks' = [sp_tasks EXCEPT ![k].i = @ + 1]
    /\ sp_writers' = IF sp_entities' # sp_entities
                     THEN sp_writers \cup {k} ELSE sp_writers
    /\ UNCHANGED <<sp_pc, sp_ents, sp_runs, sp_thoughts, simpleOthers>>

SimpleNext ==
    \/ \E t \in SimpleThoughts : SimpleStart(t)
    \/ \E ok \in BOOLEAN : SimpleRespond(ok)
    \/ \E ents \in SimpleFullEntities : SimpleFullStages(ents)
    \/ \E ok \in BOOLEAN : SimpleSave(ok)
    \/ SimpleSynthesize
    \/ \E k \in SimpleRunIds, f \in {"none", "read", "write"} : SimpleSynthItem(k, f)

SpecSimple == SimpleInit /\ [][SimpleNext]_vars

-----------------------------------------------------------------------------
(* get_resurface_queue and mark_as_reviewed over time.  The clock counts   *)
(* half-days.  mark_as_reviewed stores datetime.now() of its host without  *)
(* a zone and the query reads it in the zone of the database: rq_zone is   *)
(* the difference, in half-days.  The power ease_factor ^ review_count is  *)
(* computed exactly, in base 100; at the values reached here it is far     *)
(* from an integer, so the rounding of the float does not change its      *)
(* integer part.                                                           *)

MaxClock == 5            \* half-days the clock runs
MaxQueueReviews == 2     \* calls of mark_as_reviewed

DefaultQueueLimit == 5
HalfDaysPerDay == 2

QueueIds == <<"t1", "t2">>     \* in the order of their timestamps
QueueLimits == {1, DefaultQueueLimit}
QueueZones == {-1, 0, 1}

\* limbs * m, limbs in base 100 with the lowest first
RECURSIVE times_limbs(_, _, _, _)
times_limbs(limbs, m, i, carry) ==
    IF i > Len(limbs)
    THEN IF carry = 0 THEN <<>> ELSE <<carry % 100>> \o times_limbs(limbs, m, i, carry \div 100)
    ELSE LET v == limbs[i] * m + carry IN
         <<v % 100>> \o times_limbs(limbs, m, i + 1, v \div 100)

\* (100 * ease_factor) ^ review_count
RECURSIVE power_limbs(_, _)
power_limbs(ef, n) ==
    IF n = 0 THEN <<1>> ELSE times_limbs(power_limbs(ef, n - 1), ef, 1, 0)

RECURSIVE limbs_value(_, _)
limbs_value(limbs, i) ==
    IF i > Len(limbs) THEN 0 ELSE limbs[i] + 100 * limbs_value(limbs, i + 1)

\* toInteger(t.ease_factor ^ t.review_count): the limbs above the lowest n
interval_days(ef, n) == limbs_value(power_limbs(ef, n), n + 1)

\* the condition of the query without the interval
due_without_interval(t, now) ==
    \/ t.stats.count = 0
    \/ t.stats.count > 0 /\ t.last < now

\* the WHERE of the query, for a Thought node
due(t, now) ==
    \/ t.stats.count = 0
    \/ /\ t.stats.count > 0
       /\ t.last + HalfDaysPerDay * interval_days(t.stats.ef, t.stats.count) < now

\* ORDER BY t.timestamp ASC LIMIT $limit
RECURSIVE first_due(_, _, _, _)
first_due(thoughts, now, limit, i) ==
    IF i > Len(QueueIds) \/ limit = 0 THEN <<>>
    ELSE IF thoughts[QueueIds[i]].stats # NoThought /\ due(thoughts[QueueIds[i]], now)
    THEN <<QueueIds[i]>> \o first_due(thoughts, now, limit - 1, i + 1)
    ELSE first_due(thoughts, now, limit, i + 1)

get_resurface_queue(thoughts, now, limit) == first_due(thoughts, now, limit, 1)

QueueInit ==
    /\ PipelineInit
    /\ RouteIdle
    /\ WorkerIdle
    /\ ResolverIdle
    /\ EntityIdle
    /\ ReviewIdle
    /\ CompressIdle
    /\ RiskIdle
    /\ NameIdle
    /\ HoleIdle
    /\ OracleIdle
    /\ EnrichIdle
    /\ ThinkIdle
    /\ SimpleIdle
    /\ ContinueIdle
    /\ CandidateIdle
    /\ BatchIdle
    /\ RefineIdle
    /\ StatesIdle
    /\ ConcIdle
    /\ rq_now = 0
    /\ rq_zone \in QueueZones
    /\ rq_thoughts \in
         [{"t1", "t2"} ->
            {[stats |-> NoThought, last |-> 0, marked |-> -1],
             [stats |-> [count |-> 0, ef |-> DefaultEasePct], last |-> 0, marked |-> -1]}]
    /\ rq_reviews = 0
    /\ rq_queue = <<>>

queueOthers == <<pipelineVars, routeVars, workerVars, resolverVars, entityVars,
                 reviewVars, compressVars, riskVars, nameVars, holeVars, oracleVars,
                 enrichVars, thinkVars, simpleVars, continueVars, candidateVars, batchVars, refineVars, statesVars, concVars>>

\* half a day passes
QueueTick ==
    /\ rq_now < MaxClock
    /\ rq_now' = rq_now + 1
    /\ rq_queue' = <<>>
    /\ UNCHANGED <<rq_zone, rq_thoughts, rq_reviews, queueOthers>>

\* mark_as_reviewed at the present time; `marked` is that time on the
\* clock of the database
QueueMark(id, difficulty) ==
    /\ rq_reviews < MaxQueueReviews
    /\ rq_reviews' = rq_reviews + 1
    /\ rq_thoughts' =
         IF rq_thoughts[id].stats = NoThought THEN rq_thoughts
         ELSE [rq_thoughts EXCEPT ![id] =
                  [stats |-> reviewed(@.stats, difficulty),
                   last |-> rq_now + rq_zone,
                   marked |-> rq_now]]
    /\ rq_queue' = <<>>
    /\ UNCHANGED <<rq_now, rq_zone, queueOthers>>

\* get_resurface_queue at the present time
QueueGet(limit) ==
    /\ rq_queue = <<>>
    /\ rq_queue' = <<[limit |-> limit,
                      ids |-> get_resurface_queue(rq_thoughts, rq_now, limit)]>>
    /\ UNCHANGED <<rq_now, rq_zone, rq_thoughts, rq_reviews, queueOthers>>

QueueNext ==
    \/ QueueTick
    \/ \E id \in {"t1", "t2"}, d \in {"easy", "medium", "hard", "again"} : QueueMark(id, d)
    \/ \E limit \in QueueLimits : QueueGet(limit)

SpecQueue == QueueInit /\ [][QueueNext]_vars

-----------------------------------------------------------------------------
(* should_continue_reflection on its own, over critiques, iteration        *)
(* counts, entity counts and thoughts.                                     *)

MaxIterations == 3     \* reflection_iterations in the state
MaxEntityCount == 2    \* length of the state's entity list

TwentyWordThought ==
    "We met John and Sarah on Friday to plan the budget of the Apollo launch for the next two quarters"

ContinueCritiques ==
    { "",
      "Looks good.",
      "LOOKS GOOD, the person is ok.",
      " looks good",
      "Looks good, but a person is missing from the list.",
      "Looks good overall; every name and type is right.",
      "Missing: Sarah (Person).",
      "Types are fine." }

ContinueThoughts == {GreetingThought, TwentyWordThought, LongThought}

ContinueInit ==
    /\ PipelineInit
    /\ RouteIdle
    /\ WorkerIdle
    /\ ResolverIdle
    /\ EntityIdle
    /\ ReviewIdle
    /\ CompressIdle
    /\ RiskIdle
    /\ NameIdle
    /\ HoleIdle
    /\ OracleIdle
    /\ EnrichIdle
    /\ ThinkIdle
    /\ SimpleIdle
    /\ QueueIdle
    /\ CandidateIdle
    /\ BatchIdle
    /\ RefineIdle
    /\ StatesIdle
    /\ ConcIdle
    /\ sc_in \in [critique : ContinueCritiques, iterations : 0..MaxIterations,
                  entity_count : 0..MaxEntityCount, thought : ContinueThoughts]
    /\ sc_out = <<>>

continueOthers == <<pipelineVars, routeVars, workerVars, resolverVars, entityVars,
                    reviewVars, compressVars, riskVars, nameVars, holeVars, oracleVars,
                    enrichVars, thinkVars, simpleVars, queueVars, candidateVars, batchVars, refineVars, statesVars, concVars>>

\* the conditional edge is evaluated on the state
ContinueCall ==
    /\ sc_out = <<>>
    /\ sc_out' = <<should_continue_reflection(sc_in.critique, sc_in.iterations,
                                              sc_in.entity_count, sc_in.thought)>>
    /\ UNCHANGED <<sc_in, continueOthers>>

SpecContinue == ContinueInit /\ [][ContinueCall]_vars

-----------------------------------------------------------------------------
(* resolve_entity on mentions without an exact match: candidates at the    *)
(* threshold, between the threshold and 0.9, above 0.9 with and without    *)
(* the type, and two candidates of one score.                              *)

CandidateMentions ==
    {"Jon Smith", "John Smit", "Apollo 1", "Apollo Plan North 01", "Sarah"}

CandidatePopulations ==
    { <<>>,
      <<Ent("John Smith", "Person"), Ent("Apollo 2", "Project")>>,
      <<Ent("John Smitt", "Project"), Ent("John Smith", "Person")>>,
      <<Ent("Apollo Plan South 02", "Project")>> }

CandidateContexts ==
    { "",
      "Jon Smith from Engineering joined",
      "we met John Smit, then Apollo 1 was named",
      "Apollo 1 zzzzzzzzzzzzzzzzzzzzzzzzzzzzzzzzzzzzzzzzzzzzzzzzzzzzzzz manager" }

CandidateInit ==
    /\ PipelineInit
    /\ RouteIdle
    /\ WorkerIdle
    /\ ResolverIdle
    /\ EntityIdle
    /\ ReviewIdle
    /\ CompressIdle
    /\ RiskIdle
    /\ NameIdle
    /\ HoleIdle
    /\ OracleIdle
    /\ EnrichIdle
    /\ ThinkIdle
    /\ SimpleIdle
    /\ QueueIdle
    /\ ContinueIdle
    /\ BatchIdle
    /\ RefineIdle
    /\ StatesIdle
    /\ ConcIdle
    /\ rc_in \in [name : CandidateMentions, type : ResolveTypes,
                  existing : CandidatePopulations, context : CandidateContexts]
    /\ rc_out = <<>>

candidateOthers == <<pipelineVars, routeVars, workerVars, resolverVars, entityVars,
                     reviewVars, compressVars, riskVars, nameVars, holeVars, oracleVars,
                     enrichVars, thinkVars, simpleVars, queueVars, continueVars, batchVars, refineVars, statesVars, concVars>>

CandidateCall ==
    /\ rc_out = <<>>
    /\ rc_out' = resolve_entity(rc_in.name, rc_in.type, rc_in.existing, rc_in.context)
    /\ UNCHANGED <<rc_in, candidateOthers>>

SpecCandidates == CandidateInit /\ [][CandidateCall]_vars

-----------------------------------------------------------------------------
(* batch_resolve_entities on lists whose entries resolve to one name, to   *)
(* names differing in case only, and to different names.                   *)

MaxBatch == 3

BatchEntities ==
    { Ent("John", "Person"), Ent("john", "Person"), Ent("JOHN", "Project"),
      Ent("Jon Smith", "Person"), Ent("John Smith", "Person") }

BatchPopulations == { <<>>, <<Ent("John Smith", "Person")>> }

BatchInit ==
    /\ PipelineInit
    /\ RouteIdle
    /\ WorkerIdle
    /\ ResolverIdle
    /\ EntityIdle
    /\ ReviewIdle
    /\ CompressIdle
    /\ RiskIdle
    /\ NameIdle
    /\ HoleIdle
    /\ OracleIdle
    /\ EnrichIdle
    /\ ThinkIdle
    /\ SimpleIdle
    /\ QueueIdle
    /\ ContinueIdle
    /\ CandidateIdle
    /\ RefineIdle
    /\ StatesIdle
    /\ ConcIdle
    /\ \E n \in 0..MaxBatch :
          br_in \in [entities : [1..n -> BatchEntities], existing : BatchPopulations]
    /\ br_out = <<"none">>

batchOthers == <<pipelineVars, routeVars, workerVars, resolverVars, entityVars,
                 reviewVars, compressVars, riskVars, nameVars, holeVars, oracleVars,
                 enrichVars, thinkVars, simpleVars, queueVars, continueVars,
                 candidateVars, refineVars, statesVars, concVars>>

BatchCall ==
    /\ br_out = <<"none">>
    /\ br_out' = <<"list", batch_resolve_entities(br_in.entities, br_in.existing, "")>>
    /\ UNCHANGED <<br_in, batchOthers>>

SpecBatch == BatchInit /\ [][BatchCall]_vars

-----------------------------------------------------------------------------
(* The edge after reflect at iteration 1 and the refine stage it leads to, *)
(* with the calls of the refiner's model counted.                          *)

RefineCritiques ==
    { "ok",
      "Ok!!",
      "Fine.",
      "Looks good.",
      "Looks good, but a person is missing from the list.",
      "LOOKS GOOD overall, though a project could be added.",
      " looks good, but a person is missing",
      "Missing: Sarah (Person)." }

RefineEntityLists ==
    { <<>>, <<Ent("John", "Person")>>, <<Ent("John", "Person"), Ent("Apollo", "Project")>> }

RefineInit ==
    /\ PipelineInit
    /\ RouteIdle
    /\ WorkerIdle
    /\ ResolverIdle
    /\ EntityIdle
    /\ ReviewIdle
    /\ CompressIdle
    /\ RiskIdle
    /\ NameIdle
    /\ HoleIdle
    /\ OracleIdle
    /\ EnrichIdle
    /\ ThinkIdle
    /\ SimpleIdle
    /\ QueueIdle
    /\ ContinueIdle
    /\ CandidateIdle
    /\ BatchIdle
    /\ StatesIdle
    /\ ConcIdle
    /\ rf_pc = "reflected"
    /\ rf_crit \in RefineCritiques
    /\ rf_thought \in {QuestionThought, LongThought}
    /\ rf_ents \in RefineEntityLists
    /\ rf_before = rf_ents
    /\ rf_calls = 0

refineOthers == <<pipelineVars, routeVars, workerVars, resolverVars, entityVars,
                  reviewVars, compressVars, riskVars, nameVars, holeVars, oracleVars,
                  enrichVars, thinkVars, simpleVars, queueVars, continueVars,
                  candidateVars, batchVars, statesVars, concVars>>

\* the conditional edge after reflect, reflection_iterations being 1
RefineEdge ==
    /\ rf_pc = "reflected"
    /\ rf_pc' = should_continue_reflection(rf_crit, 1, Len(rf_ents), rf_thought)
    /\ UNCHANGED <<rf_crit, rf_thought, rf_ents, rf_before, rf_calls, refineOthers>>

\* refinement_node
RefineStage(oracle_ok, entities_data) ==
    /\ rf_pc = "refine"
    /\ rf_ents' = refine_extraction(rf_ents, rf_crit, oracle_ok, parse_entities(entities_data))
    /\ rf_calls' = rf_calls + refine_extraction_calls(rf_crit)
    /\ rf_pc' = "refined"
    /\ UNCHANGED <<rf_crit, rf_thought, rf_before, refineOthers>>

RefineNext ==
    \/ RefineEdge
    \/ \E oracle_ok \in BOOLEAN, entities_data \in JsonEntityLists :
           RefineStage(oracle_ok, entities_data)

SpecRefine == RefineInit /\ [][RefineNext]_vars

-----------------------------------------------------------------------------
(* CognitiveEntity.transition_state and its callers: the keyword rules of  *)
(* extract_cognitive_entity and the state changes the inference returns.   *)

MaxTransitions == 3

STATE_TRANSITIONS ==
    [Project |->
        [idea |-> <<"planning", "abandoned">>,
         planning |-> <<"active", "idea", "abandoned">>,
         active |-> <<"blocked", "stalled", "completing", "abandoned">>,
         blocked |-> <<"active", "stalled", "abandoned">>,
         stalled |-> <<"active", "abandoned">>,
         completing |-> <<"completed", "active">>,
         completed |-> <<>>,
         abandoned |-> <<>>],
     Person |->
        [stranger |-> <<"mentioned">>,
         mentioned |-> <<"acquaintance", "colleague">>,
         acquaintance |-> <<"colleague", "collaborator", "conflict">>,
         colleague |-> <<"collaborator", "trusted_ally", "conflict", "former">>,
         collaborator |-> <<"trusted_ally", "colleague", "conflict">>,
         trusted_ally |-> <<"collaborator", "conflict", "former">>,
         conflict |-> <<"colleague", "former">>,
         former |-> <<"colleague", "acquaintance">>]]

\* STATE_TRANSITIONS.get(entity_type, {}).get(current_state, [])
current_valid(entity_type, current_state) ==
    IF entity_type \notin DOMAIN STATE_TRANSITIONS THEN <<>>
    ELSE IF current_state \notin DOMAIN STATE_TRANSITIONS[entity_type] THEN <<>>
    ELSE STATE_TRANSITIONS[entity_type][current_state]

Elems(seq) == {seq[i] : i \in DOMAIN seq}

\* the test of transition_state: new_state in current_valid or not current_valid
transition_allowed(entity_type, current_state, new_state) ==
    \/ new_state \in Elems(current_valid(entity_type, current_state))
    \/ current_valid(entity_type, current_state) = <<>>

CognitiveTypes == {"Project", "Person", "Topic"}
CognitiveStates ==
    {"idea", "planning", "active", "blocked", "completing", "completed", "abandoned",
     "mentioned", "colleague", "former"}
CognitiveContents ==
    {"Apollo is blocked on legal", "We SHIPPED Apollo", "Apollo kicked off today",
     "Apollo again"}

\* a CognitiveEntity as extract_cognitive_entity creates it
StatesInit ==
    /\ PipelineInit
    /\ RouteIdle
    /\ WorkerIdle
    /\ ResolverIdle
    /\ EntityIdle
    /\ ReviewIdle
    /\ CompressIdle
    /\ RiskIdle
    /\ NameIdle
    /\ HoleIdle
    /\ OracleIdle
    /\ EnrichIdle
    /\ ThinkIdle
    /\ SimpleIdle
    /\ QueueIdle
    /\ ContinueIdle
    /\ CandidateIdle
    /\ BatchIdle
    /\ RefineIdle
    /\ ConcIdle
    /\ ce_type \in CognitiveTypes
    /\ ce_state = "mentioned"
    /\ ce_history = <<>>
    /\ ce_calls = 0
    /\ ce_last = <<>>

statesOthers == <<pipelineVars, routeVars, workerVars, resolverVars, entityVars,
                  reviewVars, compressVars, riskVars, nameVars, holeVars, oracleVars,
                  enrichVars, thinkVars, simpleVars, queueVars, continueVars,
                  candidateVars, batchVars, refineVars, concVars>>

\* transition_state; ce_last keeps <<from, to, returned, history before>>
transition_state(new_state, reason) ==
    /\ ce_calls < MaxTransitions
    /\ ce_calls' = ce_calls + 1
    /\ IF transition_allowed(ce_type, ce_state, new_state)
       THEN /\ ce_history' = Append(ce_history,
                                    [from |-> ce_state, to |-> new_state, reason |-> reason])
            /\ ce_state' = new_state
            /\ ce_last' = <<ce_state, new_state, TRUE, ce_history>>
       ELSE /\ ce_last' = <<ce_state, new_state, FALSE, ce_history>>
            /\ UNCHANGED <<ce_state, ce_history>>
    /\ UNCHANGED <<ce_type, statesOthers>>

\* infer_state_changes: one state change returned for the entity
InferStateChange(new_state) == transition_state(new_state, "")

\* extract_cognitive_entity on the existing entity: the keyword rules
ExtractCognitive(thought_content) ==
    LET c == Lower(thought_content) IN
    /\ ce_type = "Project"
    /\ IF \E w \in {"blocked", "stuck", "can't proceed"} : Contains(c, w)
       THEN transition_state("blocked", "Blocking language detected")
       ELSE IF \E w \in {"finished", "completed", "done", "shipped"} : Contains(c, w)
       THEN transition_state("completed", "Completion language detected")
       ELSE IF \E w \in {"started", "beginning", "kicked off"} : Contains(c, w)
       THEN transition_state("active", "Active language detected")
       ELSE /\ ce_calls < MaxTransitions
            /\ ce_calls' = ce_calls + 1
            /\ ce_last' = <<>>
            /\ UNCHANGED <<ce_type, ce_state, ce_history, statesOthers>>

StatesNext ==
    \/ \E new_state \in CognitiveStates : InferStateChange(new_state)
    \/ \E thought_content \in CognitiveContents : ExtractCognitive(thought_content)

SpecStates == StatesInit /\ [][StatesNext]_vars

-----------------------------------------------------------------------------
(* process_thought calls in progress at the same time on one event loop:   *)
(* a coroutine gives way at the await of a stage and nowhere else.         *)
(* knowledge_saver has no await, its writes are one step.                  *)

MaxConcurrent == 2

ConcRuns == 1..MaxConcurrent

\* the stages that await the model, in order, and the stage after each
ConcAwaiting == {"extract", "reflect", "respond"}
ConcAfter == [extract |-> "reflect", reflect |-> "respond", respond |-> "save"]

\* the two add_conversation_message calls of knowledge_saver with the user
\* message only
conversation_saved_user_only(history, id) == Append(history, Msg("user", id))

\* the two add_conversation_message calls of knowledge_saver
conversation_saved(history, id) ==
    Append(Append(history, Msg("user", id)), Msg("assistant", id))

ConcInit ==
    /\ PipelineInit
    /\ RouteIdle
    /\ WorkerIdle
    /\ ResolverIdle
    /\ EntityIdle
    /\ ReviewIdle
    /\ CompressIdle
    /\ RiskIdle
    /\ NameIdle
    /\ HoleIdle
    /\ OracleIdle
    /\ EnrichIdle
    /\ ThinkIdle
    /\ SimpleIdle
    /\ QueueIdle
    /\ ContinueIdle
    /\ CandidateIdle
    /\ BatchIdle
    /\ RefineIdle
    /\ StatesIdle
    /\ co_pc = [r \in ConcRuns |-> "idle"]
    /\ co_id = [r \in ConcRuns |-> 0]
    /\ co_log = <<>>
    /\ co_order = <<>>

concOthers == <<pipelineVars, routeVars, workerVars, resolverVars, entityVars,
                reviewVars, compressVars, riskVars, nameVars, holeVars, oracleVars,
                enrichVars, thinkVars, simpleVars, queueVars, continueVars,
                candidateVars, batchVars, refineVars, statesVars>>

\* process_thought: the thought_id is drawn and the graph entered
ConcStart(r, id) ==
    /\ co_pc[r] = "idle"
    /\ co_pc' = [co_pc EXCEPT ![r] = "extract"]
    /\ co_id' = [co_id EXCEPT ![r] = id]
    /\ co_order' = Append(co_order, <<"start", r>>)
    /\ UNCHANGED <<co_log, concOthers>>

\* a stage that awaits the model resumes; respond raises when its call fails
ConcStage(r, oracle_ok) ==
    /\ co_pc[r] \in ConcAwaiting
    /\ co_pc' = [co_pc EXCEPT ![r] = IF co_pc[r] = "respond" /\ ~oracle_ok THEN "failed"
                                     ELSE ConcAfter[co_pc[r]]]
    /\ UNCHANGED <<co_id, co_log, co_order, concOthers>>

\* knowledge_saver: "graph" raises in add_thought, before the messages;
\* "holes" raises in get_serendipity_nudges, after them
ConcSave(r, fault) ==
    /\ co_pc[r] = "save"
    /\ co_log' = IF fault = "graph" THEN co_log ELSE conversation_saved(co_log, co_id[r])
    /\ co_pc' = [co_pc EXCEPT ![r] = IF fault = "none" THEN "end" ELSE "failed"]
    /\ co_order' = IF fault = "graph" THEN co_order ELSE Append(co_order, <<"save", r>>)
    /\ UNCHANGED <<co_id, concOthers>>

\* synthesis_node and END: process_thought returns
ConcReturn(r) ==
    /\ co_pc[r] = "end"
    /\ co_pc' = [co_pc EXCEPT ![r] = "done"]
    /\ UNCHANGED <<co_id, co_log, co_order, concOthers>>

ConcNext ==
    \/ \E r \in ConcRuns, id \in ConcRuns : ConcStart(r, id)
    \/ \E r \in ConcRuns, oracle_ok \in BOOLEAN : ConcStage(r, oracle_ok)
    \/ \E r \in ConcRuns, fault \in {"none", "graph", "holes"} : ConcSave(r, fault)
    \/ \E r \in ConcRuns : ConcReturn(r)

SpecConcurrent == ConcInit /\ [][ConcNext]_vars

-----------------------------------------------------------------------------
(* Properties                                                              *)

Count(seq, x) == Cardinality({i \in DOMAIN seq : seq[i] = x})

IsPrefix(p, q) == Len(p) <= Len(q) /\ SubSeq(q, 1, Len(p)) = p

\* the router's answer for each thought a run can carry
RouteOf == [t \in Thoughts |-> should_use_full_pipeline(t)]

RoutedSimple(r) == trace[r] # <<>> /\ RouteOf[thought[r]] = "simple"
RoutedFull(r) == trace[r] # <<>> /\ RouteOf[thought[r]] = "full_pipeline"

\* C1: whatever the critic returns, reflection_iterations is at most 2
\* when a run leaves reflect for enrich (and at any other time).
C1_ReflectionBound ==
    \A r \in Runs :
        /\ iters[r] <= 2
        /\ pc[r] = "enrich" => iters[r] \in 1..2

\* C1 witness: a run reaches enrich after two reflections although the
\* critic signalled "missing" on the second one too.
C1_Witness ==
    \E r \in Runs :
        /\ pc[r] = "enrich"
        /\ iters[r] = 2
        /\ critique[r] = "Missing: Sarah (Person)."
        /\ Count(trace[r], "refine") = 1

\* C2: every run that has ended, on either path, executed save exactly once.
C2_SaveExactlyOnce ==
    \A r \in Runs : Finished(r) => Count(trace[r], "save") = 1

\* C3: a model-call failure (a failed call, or output the stage cannot
\* use) never ends a run: no run raises because of the model.
C3_OracleFailureRecovered ==
    \A r \in Runs : raised[r] \notin {"oracle", "malformed_action"}

\* C4: process never returns normally for a thought one of whose save
\* writes failed.
C4_SaveWriteFailureReported ==
    \A r \in Runs : pc[r] = "done" => \A w \in lostWrites : w[1] # r

\* C5: should_use_full_pipeline returns "simple" exactly when the thought,
\* lower-cased and stripped, is shorter than 15 characters or is one of the
\* greeting phrases, and "full_pipeline" otherwise.
C5_RoutingRule ==
    rt_result # "" =>
        LET norm == Strip(Lower(rt_thought)) IN
        /\ rt_result \in {"simple", "full_pipeline"}
        /\ rt_result = "simple" <=>
              (Len(norm) < 15 \/ norm \in {"hi", "hello", "hey", "thanks", "thank you",
                                            "ok", "okay", "bye", "goodbye"})

\* C5 witness: a thought of exactly 15 characters once stripped was sent
\* to the full pipeline although its raw text is longer.
C5_Witness ==
    /\ rt_result = "full_pipeline"
    /\ Len(Strip(Lower(rt_thought))) = 15
    /\ Len(rt_thought) > 15

C7_FullPathOrder ==
    \A r \in Runs : (RoutedFull(r) /\ Finished(r)) =>
        /\ \E k \in 0..Len(trace[r]) :
              trace[r] = <<"load_context", "extract", "reflect">>
                         \o [i \in 1..(2 * k) |-> IF i % 2 = 1 THEN "refine" ELSE "reflect"]
                         \o <<"enrich", "respond", "save", "synthesize">>
        /\ \A n \in {"extract", "enrich", "respond", "save", "synthesize"} :
              Count(trace[r], n) = 1

RunCalls(r) == SelectSeq(writeLog, LAMBDA e : e.run = r)

\* once another run's call follows a call of run r, no call of r follows
Contiguous(r) ==
    \A i \in 1..(Len(writeLog) - 1) :
        (writeLog[i].run = r /\ writeLog[i + 1].run # r) =>
            \A j \in (i + 1)..Len(writeLog) : writeLog[j].run # r

\* C8: the write calls of one save are, in this order, the graph store,
\* the vector index, the user message, the assistant message; and when the
\* thought is indexed, respond or simple_respond of the same run has set
\* the response.
C8_SaveOrder ==
    \A r \in Runs :
        LET ops == [i \in DOMAIN RunCalls(r) |-> RunCalls(r)[i].op] IN
        /\ IsPrefix(ops, <<"graph", "vector", "user", "assistant">>)
        /\ Contiguous(r)
        /\ (trace[r] # <<>> /\ Count(ops, "vector") > 0) =>
              /\ pc[r] # "failed" => response[r] = LLMResponse
              /\ \E i \in DOMAIN trace[r] :
                    /\ trace[r][i] \in {"respond", "simple"}
                    /\ \A j \in DOMAIN trace[r] : trace[r][j] = "save" => i < j

\* C8 witness: a second thought was saved with all four calls after the
\* first one's.
C8_Witness ==
    \E r \in Runs :
        /\ r > 1
        /\ pc[r] = "synthesize"
        /\ Count(trace[r], "respond") = 1
        /\ Len(RunCalls(r)) = 4
        /\ Len(writeLog) > 4

\* a background task ends
TaskEnds == \E r \in Runs : tasks[r] = "running" /\ tasks'[r] # "running"

\* C9: the synthesize node only schedules the task (the task has not run
\* when the node ends and the graph reaches END); the return of the call
\* does not touch or wait for any task; and the end of a task, good or
\* bad, changes nothing of any call.
C9_FireAndForget ==
    [][ /\ \A r \in Runs :
              (pc[r] = "synthesize" /\ pc'[r] # "synthesize") =>
                  (pc'[r] = "end" /\ tasks'[r] = "running")
        /\ \A r \in Runs :
              (pc[r] = "end" /\ pc'[r] = "done") => UNCHANGED <<tasks, pending_tasks>>
        /\ TaskEnds => UNCHANGED <<pc, response, entities, actions, trace, raised>>
      ]_vars

\* C9 witness: a call has returned, the next call is in progress, and the
\* first call's synthesis task is still running.
C9_Witness ==
    \E r, q \in Runs :
        /\ pc[r] = "done"
        /\ tasks[r] = "running"
        /\ pc[q] = "respond"

\* C10: no two synthesis tasks were ever scheduled for the same
\* thought_id, and a task that is still running is still the registry's
\* entry for its key.
C10_OneTaskPerThoughtId ==
    /\ \A r, q \in Runs :
          (r # q /\ tasks[r] # NoTask /\ tasks[q] # NoTask) =>
              thought_id[r] # thought_id[q]
    /\ \A r \in Runs :
          tasks[r] = "running" => pending_tasks[thought_id[r]] = r

\* C11: at most 2 background tasks are running at any time.
C11_AtMostTwoRunning ==
    Cardinality({n \in DOMAIN tasks : tasks[n] = "running"}) <= 2

\* C12: get_task_status of a task whose coroutine raised reports "failed".
C12_FailedTaskReported ==
    \A k \in DOMAIN pending_tasks :
        (/\ bw_op = "status"
         /\ bw_status # <<>>
         /\ bw_status[1] = k
         /\ pending_tasks[k] # 0
         /\ tasks[pending_tasks[k]] = "errored") => bw_status[2] = "failed"

\* the step is a cleanup_completed_tasks call
CleanupStep == bw_op' = "cleanup" /\ UNCHANGED tasks

\* the registry entries whose task is still running
RunningEntries(reg) ==
    [k \in DOMAIN reg |-> IF reg[k] # 0 /\ tasks[reg[k]] = "running" THEN reg[k] ELSE 0]

\* C13: cleanup_completed_tasks leaves exactly the entries of running
\* tasks; a call that follows a cleanup, no task of an entry having ended
\* since, changes nothing.
C13_CleanupExactAndIdempotent ==
    [][ CleanupStep =>
           /\ pending_tasks' = RunningEntries(pending_tasks)
           /\ (/\ bw_op = "cleanup"
               /\ \A k \in DOMAIN pending_tasks :
                     pending_tasks[k] # 0 => tasks[pending_tasks[k]] = "running")
              => pending_tasks' = pending_tasks
      ]_vars

\* C13 witness: a cleanup removed the entry of a task that had ended and
\* kept the entry of one that was running.
C13_Witness ==
    /\ bw_op = "cleanup"
    /\ \E k \in DOMAIN pending_tasks :
          pending_tasks[k] # 0 /\ tasks[pending_tasks[k]] = "running"
    /\ \E n \in DOMAIN tasks :
          /\ tasks[n] \in {"completed", "errored"}
          /\ \A k \in DOMAIN pending_tasks : pending_tasks[k] # n

\* C14: a mention equal to an existing name but for its case resolves to
\* the existing name (is_new FALSE) when the context does not distinguish
\* it, and stays a separate new entity (is_new TRUE) when the context
\* around the mention does.
C14_MergeUnlessDistinguished ==
    (/\ rs_out # <<>>
     /\ rs_in.name = "john smith"
     /\ rs_in.type = "Person"
     /\ rs_in.existing = <<Ent("John Smith", "Person")>>) =>
        /\ rs_in.context = "" => rs_out = <<"John Smith", FALSE>>
        /\ rs_in.context =
               "John Smith from Engineering, distinct from John Smith in Marketing"
              => rs_out = <<"john smith", TRUE>>

\* C15: resolving the name resolve_entity returned, against the same
\* population and context, returns that name again.
C15_ResolveIdempotent ==
    rs_again # <<>> => rs_again[1] = rs_out[1]

\* the names of an entity list, in order
NamesOf(ents) == [i \in DOMAIN ents |-> ents[i].name]

\* C16: a run that extracts, after another run's save, the entity names
\* that run extracted resolves each name as not new, and its save creates
\* no Entity node.
C16_NoDuplicateOnResubmission ==
    \A r, q \in EsRuns :
        (/\ r # q
         /\ q \in es_seen[r]
         /\ es_raw[r] # <<>>
         /\ NamesOf(es_raw[r]) = NamesOf(es_raw[q])
         /\ es_pc[r] \in {"synth", "done"}) =>
            /\ \A i \in DOMAIN es_ents[r] : ~es_ents[r][i].is_new
            /\ es_added[r] = 0

\* lower(type):lower(name) of an Entity node
IdentityKey(e) == Lower(e.type) \o ":" \o Lower(e.name)

\* C17: no two Entity nodes of the store have the same identity key.
C17_OneEntityPerIdentity ==
    \A x, y \in entityStore : IdentityKey(x) = IdentityKey(y) => x = y

\* C18: after any sequence of reviews the stored ease_factor of a
\* reviewed thought is at least 1.3.
C18_EaseFactorFloor ==
    \A id \in DOMAIN rv_stats :
        rv_stats[id].count > 0 => rv_stats[id].ef >= 130

\* C18 witness: a thought reviewed ten times sits on the floor, which
\* 2.5 reaches only by clamping.
C18_Witness ==
    \E id \in DOMAIN rv_stats : rv_stats[id].count = 10 /\ rv_stats[id].ef = 130

\* C19: the output for a context longer than the budget contains the
\* first line and the last line of the context.
C19_KeepsFirstAndLastLine ==
    (cc_out # <<>> /\ Len(cc_in[1]) > cc_in[2]) =>
        LET lines == split(cc_in[1])
        IN /\ Contains(cc_out[1], lines[1])
           /\ Contains(cc_out[1], lines[Len(lines)])

\* C20: the output is strictly shorter than a context longer than
\* max_chars, and is the context itself when the context is not longer
\* than max_chars.
C20_ShorterOrIdentity ==
    cc_out # <<>> =>
        IF Len(cc_in[1]) > cc_in[2]
        THEN Len(cc_out[1]) < Len(cc_in[1])
        ELSE cc_out[1] = cc_in[1]

\* the Entity nodes marked at risk
AtRisk(nodes) == {p \in nodes : p.status = "at_risk"}

\* C21: a save marks a node at risk or adds a BLOCKS edge
\* only for a thought whose is_blocker is true and whose affected_project
\* is a non-empty name; a thought with is_blocker true and affected_project
\* null or empty changes no status and adds no edge.
C21_RiskOnlyForNamedProject ==
    [][ (rk_state # <<>> /\ rk_state' = <<>>) =>
          LET t == rk_state[1]
              changed == \/ rk_blocks' # rk_blocks
                         \/ Cardinality(AtRisk(rk_nodes')) # Cardinality(AtRisk(rk_nodes))
          IN /\ changed => /\ t.is_blocker = <<TRUE>>
                           /\ t.affected_project # <<>>
                           /\ t.affected_project # <<"">>
             /\ (t.is_blocker = <<TRUE>> /\ t.affected_project \in {<<>>, <<"">>})
                    => ~changed ]_vars

\* C21 witness: a blocker thought with an empty or null project name was
\* saved without effect, and a blocker thought naming a project put it at
\* risk.
C21_Witness ==
    /\ \E i \in DOMAIN rk_saved :
          /\ rk_saved[i].is_blocker = <<TRUE>>
          /\ rk_saved[i].affected_project \in {<<>>, <<"">>}
          /\ \A b \in rk_blocks : b[1] # i
    /\ \E b \in rk_blocks : \E p \in rk_nodes :
          p.name = b[2] /\ p.type = b[3] /\ p.status = "at_risk"

\* C22: every entity attached to a saved Thought has a non-empty name.
C22_SavedEntitiesNamed ==
    /\ \A i \in DOMAIN nm_saved :
          \A j \in DOMAIN nm_saved[i].entities : nm_saved[i].entities[j].name # ""
    /\ nm_saved # <<>> => \A e \in entityStore : e.name # ""

\* C22 witness: a Thought was saved with entities after the model had
\* returned, in that run, an entity object without a name.
C22_Witness ==
    \E i \in DOMAIN nm_saved : nm_saved[i].dropped /\ nm_saved[i].entities # <<>>

\* C23: the entities returned are mentioned together with an entity of A in
\* a stored thought and are not named in A; there are at most limit of
\* them, in descending order of the number of thoughts they share with the
\* entity of A they are connected through; nothing is returned for an
\* empty A.
C23_StructuralHoles ==
    hl_query # <<>> =>
        LET A == hl_query[1]
            limit == hl_query[2]
        IN /\ A = <<>> => hl_holes = <<>>
           /\ Len(hl_holes) <= limit
           /\ \A i \in DOMAIN hl_holes :
                 /\ \E k \in DOMAIN A :
                       /\ lower_name[A[k]] = lower_name[hl_holes[i].connected_via]
                       /\ shared(hl_stored, hl_holes[i].connected_via,
                                 hl_holes[i].disconnected_topic) # {}
                 /\ \A k \in DOMAIN A :
                       lower_name[A[k]] # lower_name[hl_holes[i].disconnected_topic]
           /\ \A i, j \in DOMAIN hl_holes :
                 i < j => Cardinality(shared(hl_stored, hl_holes[i].connected_via,
                                             hl_holes[i].disconnected_topic))
                          >= Cardinality(shared(hl_stored, hl_holes[j].connected_via,
                                                hl_holes[j].disconnected_topic))

\* C24: a call of get_serendipity_nudges returns one nudge for each hole
\* found, in order; the nudge of a hole whose text generation failed
\* carries the template text.
C24_OneNudgePerHole ==
    hl_oks # <<>> =>
        /\ Len(hl_nudges) = Len(hl_holes)
        /\ \A i \in DOMAIN hl_holes :
              /\ hl_nudges[i].disconnected_topic = hl_holes[i].disconnected_topic
              /\ hl_nudges[i].connected_via = hl_holes[i].connected_via
              /\ ~hl_oks[i] =>
                    hl_nudges[i].message =
                        template(hl_query[1][1], hl_holes[i].disconnected_topic,
                                 hl_holes[i].connected_via)

\* C24 witness: a call found several holes, the generation failed for one
\* of them and succeeded for another.
C24_Witness ==
    /\ Len(hl_holes) >= 2
    /\ Len(hl_nudges) = Len(hl_holes)
    /\ \E i, j \in DOMAIN hl_oks : ~hl_oks[i] /\ hl_oks[j]
    /\ \E i \in DOMAIN hl_nudges :
          hl_nudges[i].message =
              "Is your idea about 'John' related to 'Mars'? They share a connection through 'John'."

\* C25: after a failed model call, extract has left an empty entity list
\* and the run is at reflect; reflect has left the critique "Looks good."
\* and the run is at enrich, not at refine; refine has left the entity
\* list as it was and the run is at reflect.
C25_OracleFailureDefaults ==
    (ox_last # <<>> /\ ~ox_last[2]) =>
        CASE ox_last[1] = "extract" -> ox_ents = <<>> /\ ox_pc = "reflect"
          [] ox_last[1] = "reflect" -> ox_crit = "Looks good." /\ ox_pc = "enrich"
          [] ox_last[1] = "refine" -> ox_ents = ox_last[3] /\ ox_pc = "reflect"

\* C25 witness: one run of a long thought in which the model call failed
\* in extract, in refine and in reflect, and which reached enrich.
C25_Witness ==
    /\ ox_failed = {"extract", "reflect", "refine"}
    /\ ox_thought = LongThought
    /\ ox_pc = "enrich"

\* C26: when no graph read raised, enrich ends at respond; an analyzer
\* whose call or parse failed has given its neutral default, and an
\* analyzer whose call succeeded has given what the model returned,
\* whatever the other two did.
C26_AnalyzerFailuresIndependent ==
    en_in # <<>> =>
        LET call == en_in[1] IN
        IF call.read_fault # "none" THEN en_pc = "failed"
        ELSE /\ en_pc \in {"respond", "responding"}
             /\ call.intent # "ok" =>
                   en_out[1].is_blocker = <<FALSE>> /\ en_out[1].affected_project = <<>>
             /\ call.intent = "ok" =>
                   /\ en_out[1].affected_project = call.intent_data.affected_project_name
                   /\ call.intent_data.is_blocker # <<>> =>
                         en_out[1].is_blocker = call.intent_data.is_blocker
             /\ call.social # "ok" => en_out[1].nudges = <<>>
             /\ (call.social = "ok" /\ call.topics # <<>>) => en_out[1].nudges = call.nudges
             /\ call.audit # "ok" => en_out[1].actions = <<>>
             /\ call.audit = "ok" => en_out[1].actions = call.acts

\* C26 witness: the parse of the intent analyzer failed on a text that
\* claimed a blocker, the other two analyzers returned a nudge and an
\* action, and the responder was reached.
C26_Witness ==
    /\ en_pc = "responding"
    /\ en_in[1].intent = "parse_fail"
    /\ en_in[1].intent_data.is_blocker = <<TRUE>>
    /\ en_out[1].is_blocker = <<FALSE>>
    /\ en_out[1].nudges # <<>>
    /\ en_out[1].actions # <<>>

\* C27: a read that fails while the context is loaded aborts no run: no run
\* ends in load_context.
C27_ContextReadFailureTolerated ==
    \A r \in Runs :
        pc[r] = "failed" =>
            ~(trace[r] = <<"load_context">>
              /\ raised[r] \in {"vector_count", "graph_search"})

\* C28: a request whose thought is empty or only whitespace is answered
\* with an error and no stage runs for it; no empty thought is ever in the
\* graph, in the vector index or in the conversation log.
C28_EmptyThoughtRejected ==
    /\ th_req # <<>> /\ Strip(th_req[1].raw) = "" =>
           /\ th_req[1].status = 400
           /\ th_pc = "ready"
           /\ th_trace = <<>>
    /\ \A t \in th_store.thoughts \cup th_store.index : Strip(t) # ""
    /\ \A i \in 1..Len(th_store.log) : Strip(th_store.log[i]) # ""

\* C28 witness: a greeting was saved, then a whitespace-only thought was
\* rejected and the stores are as the greeting left them.
C28_Witness ==
    /\ th_req # <<>>
    /\ th_req[1].raw = " \n\t "
    /\ th_req[1].status = 400
    /\ th_trace = <<>>
    /\ th_store.thoughts = {"hi"}
    /\ th_store.log = <<"hi">>

\* C29: every run on the simple path that returned has its thought saved
\* as a Thought with an empty entity list, no Thought of such a run has
\* entities, and neither such a run nor its synthesis task has changed the
\* set of Entity nodes.
C29_SimplePathLeavesEntities ==
    /\ \A k \in 1..Len(sp_runs) :
          sp_runs[k].route = "simple" =>
              /\ k \notin sp_writers
              /\ sp_runs[k].status = "returned" =>
                    [id |-> k, content |-> sp_runs[k].thought, entities |-> <<>>]
                        \in sp_thoughts
    /\ \A n \in sp_thoughts :
          sp_runs[n.id].route = "simple" => n.entities = <<>>

\* C29 witness: with two entities in the store, "hi" and "hello" were both
\* saved on the simple path and their synthesis tasks ended; the store has
\* the same two entities.
C29_Witness ==
    /\ Len(sp_runs) = 2
    /\ sp_runs[1].thought = "hi" /\ sp_runs[1].status = "returned"
    /\ sp_runs[2].thought = "hello" /\ sp_runs[2].status = "returned"
    /\ sp_tasks[1].st = "done" /\ sp_tasks[2].st = "done"
    /\ [id |-> 1, content |-> "hi", entities |-> <<>>] \in sp_thoughts
    /\ [id |-> 2, content |-> "hello", entities |-> <<>>] \in sp_thoughts
    /\ Cardinality(sp_entities) = 2
    /\ sp_writers = {}

\* the ids of the queue last returned
Returned == {rq_queue[1].ids[i] : i \in 1..Len(rq_queue[1].ids)}

ShortLooksGood(c) == StartsWith(Lower(c), "looks good") /\ Len(c) < 30

\* the critique has a signal word
HasSignal(c) ==
    \E w \in {"missing", "should include", "could add", "forgot", "overlooked",
              "didn't catch", "also mention", "important", "person", "project",
              "relationship"} : Contains(Lower(c), w)

\* C31: the rules of should_continue_reflection in their priority: two or
\* more iterations conclude; else a short "looks good" concludes, signal
\* word or not; else a signal word refines; else a thought of more than 20
\* words with fewer than 2 entities at iteration 1 refines; else conclude.
C31_RulePriority ==
    sc_out # <<>> =>
        LET c == sc_in.critique
            n == sc_in.iterations
            low == /\ WordCount(sc_in.thought) > 20
                   /\ sc_in.entity_count < 2
                   /\ n = 1
        IN /\ n >= 2 => sc_out[1] = "conclude"
           /\ (n < 2 /\ ShortLooksGood(c)) => sc_out[1] = "conclude"
           /\ (n < 2 /\ ~ShortLooksGood(c) /\ HasSignal(c)) => sc_out[1] = "refine"
           /\ (n < 2 /\ ~ShortLooksGood(c) /\ ~HasSignal(c) /\ low) => sc_out[1] = "refine"
           /\ (n < 2 /\ ~ShortLooksGood(c) /\ ~HasSignal(c) /\ ~low) => sc_out[1] = "conclude"

\* C31 witness: a short "looks good" with the signal word "person", at
\* iteration 1 on a long thought without entities, concluded.
C31_Witness ==
    /\ sc_out = <<"conclude">>
    /\ sc_in.critique = "LOOKS GOOD, the person is ok."
    /\ sc_in.iterations = 1
    /\ sc_in.entity_count = 0
    /\ sc_in.thought = LongThought

\* C32: whatever the critic and the refiner return, and whichever calls
\* fail, a run on the full path makes at most two reflect steps and at most
\* one refine step, and once in the loop it ends at END and nowhere else.
C32_LoopEndsAndRunReachesEnd ==
    \A r \in Runs :
        /\ Count(trace[r], "reflect") <= 2
        /\ Count(trace[r], "refine") <= 1
        /\ (Count(trace[r], "reflect") >= 1 /\ Finished(r)) => pc[r] = "done"

\* the score of the mention against the existing entity at p, and whether
\* their types are the same
MentionScore(p) == similarity_score(rc_in.name, rc_in.existing[p].name)
SameType(p) == Lower(rc_in.existing[p].type) = Lower(rc_in.type)

\* the existing entities at or above 0.85
Collected == {p \in DOMAIN rc_in.existing : MentionScore(p).num * 100 >= 85 * MentionScore(p).den}

\* q is higher than p by (score, same type)
Higher(q, p) ==
    \/ MentionScore(q).num * MentionScore(p).den > MentionScore(p).num * MentionScore(q).den
    \/ /\ MentionScore(q).num * MentionScore(p).den = MentionScore(p).num * MentionScore(q).den
       /\ SameType(q) /\ ~SameType(p)

\* C33: for a mention that no existing name equals, the candidate taken is
\* one highest by (score, same type) among those at or above 0.85; above
\* 0.9 with the same type it is merged; else above 0.85 it is merged unless
\* the context distinguishes the mention, which is then new; and with no
\* candidate above 0.85 the mention is new.
C33_CandidateRules ==
    (/\ rc_out # <<>>
     /\ \A p \in DOMAIN rc_in.existing :
           Lower(rc_in.existing[p].name) # Strip(Lower(rc_in.name))) =>
        IF Collected = {} THEN rc_out = <<rc_in.name, TRUE>>
        ELSE \E p \in Collected :
                /\ \A q \in Collected : ~Higher(q, p)
                /\ LET sc == MentionScore(p)
                       merged == <<rc_in.existing[p].name, FALSE>>
                       new == <<rc_in.name, TRUE>>
                   IN IF sc.num * 100 > 90 * sc.den /\ SameType(p) THEN rc_out = merged
                      ELSE IF sc.num * 100 > 85 * sc.den
                      THEN IF has_distinguishing_context(rc_in.name, rc_in.existing[p].name,
                                                         rc_in.context)
                           THEN rc_out = new ELSE rc_out = merged
                      ELSE rc_out = new

\* C33 witness: "Apollo 1" scores 0.875 against "Apollo 2" and is merged,
\* the context having its signal more than 50 characters away.
C33_Witness ==
    /\ rc_out = <<"Apollo 2", FALSE>>
    /\ rc_in.name = "Apollo 1"
    /\ rc_in.type = "Project"
    /\ rc_in.context =
          "Apollo 1 zzzzzzzzzzzzzzzzzzzzzzzzzzzzzzzzzzzzzzzzzzzzzzzzzzzzzzz manager"

\* what the entry at i resolves to, and the inputs no earlier input
\* resolves to the name of, case apart
BatchResolved(i) ==
    resolve_entity(br_in.entities[i].name, br_in.entities[i].type, br_in.existing, "")
BatchFirsts ==
    {i \in DOMAIN br_in.entities :
        \A j \in 1..(i - 1) : Lower(BatchResolved(j)[1]) # Lower(BatchResolved(i)[1])}

\* C34: no two entries of the returned list have names equal case apart;
\* the list is, in input order, the first input of each resolved name.
C34_BatchDeduplicated ==
    br_out[1] = "list" =>
        LET out == br_out[2] IN
        /\ \A i, j \in DOMAIN out : i # j => Lower(out[i].name) # Lower(out[j].name)
        /\ Len(out) = Cardinality(BatchFirsts)
        /\ \A i \in BatchFirsts :
              LET k == Cardinality({j \in BatchFirsts : j <= i}) IN
              /\ out[k].name = BatchResolved(i)[1]
              /\ out[k].type = br_in.entities[i].type
              /\ out[k].is_new = BatchResolved(i)[2]

\* C34 witness: "Jon Smith", "john" and "JOHN" against a graph holding
\* "John Smith": the first is merged, "john" is kept and "JOHN" dropped.
C34_Witness ==
    /\ br_out[1] = "list"
    /\ br_in.entities = <<Ent("Jon Smith", "Person"), Ent("john", "Person"),
                          Ent("JOHN", "Project")>>
    /\ br_in.existing = <<Ent("John Smith", "Person")>>
    /\ br_out[2] = <<[name |-> "John Smith", type |-> "Person", is_new |-> FALSE],
                     [name |-> "john", type |-> "Person", is_new |-> TRUE]>>

\* C35: after the refine stage on a critique that starts with "looks good"
\* in any case, or has fewer than 5 characters, the entities are those
\* before the stage and the refiner's model was not called.
C35_TrivialCritiqueRefinesNothing ==
    (/\ rf_pc = "refined"
     /\ \/ Len(rf_crit) < 5
        \/ /\ Len(rf_crit) >= 10
           /\ Lower(SubSeq(rf_crit, 1, 10)) = "looks good") =>
        /\ rf_ents = rf_before
        /\ rf_calls = 0

\* C35 witness: the edge refined on the word "person" of a critique that
\* starts with "Looks good", and the stage left two entities as they were.
C35_Witness ==
    /\ rf_pc = "refined"
    /\ rf_crit = "Looks good, but a person is missing from the list."
    /\ rf_ents = <<Ent("John", "Person"), Ent("Apollo", "Project")>>
    /\ rf_before = rf_ents
    /\ rf_calls = 0

\* a critique of fewer than 5 characters reached the stage too (by the
\* low entity count), and a critique that is not trivial had the model called
C35_ShortReached == rf_pc = "refined" /\ rf_crit = "Ok!!" /\ rf_calls = 0
C35_CallReached == rf_pc = "refined" /\ rf_crit = "Fine." /\ rf_calls = 1 /\ rf_ents # rf_before

\* C36: the output of compress_context is at most max_chars characters
\* long, for every context and every max_chars.
C36_OutputFitsBudget ==
    cc_out # <<>> => Len(cc_out[1]) <= cc_in[2]

\* C37: a call of transition_state that returned True went along an edge
\* listed for the entity's type; a Project in "completed" or "abandoned"
\* stayed there; a call that returned False left current_state and
\* state_history as they were.
C37_TransitionsFollowTable ==
    ce_last # <<>> =>
        /\ ce_last[3] =>
              /\ ce_type \in DOMAIN STATE_TRANSITIONS
              /\ ce_last[1] \in DOMAIN STATE_TRANSITIONS[ce_type]
              /\ ce_last[2] \in Elems(STATE_TRANSITIONS[ce_type][ce_last[1]])
        /\ (ce_type = "Project" /\ ce_last[1] \in {"completed", "abandoned"}) =>
              ce_state = ce_last[1]
        /\ ~ce_last[3] => (ce_state = ce_last[1] /\ ce_history = ce_last[4])

\* the half of C37 about rejected calls
C37_RejectedChangesNothing ==
    (ce_last # <<>> /\ ~ce_last[3]) => (ce_state = ce_last[1] /\ ce_history = ce_last[4])

\* a completed Project that was moved to "blocked"
C37_TerminalLeft ==
    /\ ce_last # <<>>
    /\ ce_type = "Project"
    /\ ce_last[1] = "completed"
    /\ ce_state = "blocked"

\* C38: every entity of a saved Thought is one the resolver returned in
\* that run, also after the refine stage.
C38_SavedEntitiesResolved ==
    \A i \in DOMAIN nm_saved :
        \A j \in DOMAIN nm_saved[i].entities :
            \E k \in DOMAIN nm_saved[i].resolved :
                nm_saved[i].entities[j] = nm_saved[i].resolved[k]

\* a second Thought saved with "john", which the refiner returned and the
\* resolver never saw, the store holding "John" from the first
C38_RefinedNameSaved ==
    /\ Len(nm_saved) = 2
    /\ nm_saved[1].entities = <<Ent("John", "Person")>>
    /\ nm_saved[2].entities = <<Ent("john", "Person")>>
    /\ nm_saved[2].resolved = <<>>

\* C39: with process_thought calls in progress at the same time, the
\* conversation log is a sequence of pairs, a user message followed at once
\* by the assistant message of the same thought_id, and every run whose
\* save wrote its messages has its pair in the log.
C39_ConversationPairsAdjacent ==
    /\ Len(co_log) % 2 = 0
    /\ \A k \in DOMAIN co_log :
          k % 2 = 1 =>
              /\ co_log[k].role = "user"
              /\ co_log[k + 1].role = "assistant"
              /\ co_log[k + 1].thought_id = co_log[k].thought_id
    /\ \A r \in ConcRuns :
          (\E n \in DOMAIN co_order : co_order[n] = <<"save", r>>) =>
              \E k \in DOMAIN co_log : k % 2 = 1 /\ co_log[k].thought_id = co_id[r]

\* C39 witness: run 1 started, then run 2; run 2 saved first, run 1 after
\* it, and run 2 is still before END when run 1 has returned.
C39_Witness ==
    /\ co_order = <<<<"start", 1>>, <<"start", 2>>, <<"save", 2>>, <<"save", 1>>>>
    /\ co_id = <<1, 2>>
    /\ co_pc = <<"done", "end">>
    /\ co_log = <<Msg("user", 2), Msg("assistant", 2), Msg("user", 1), Msg("assistant", 1)>>

\* C40: a run that ended in a failure, its thought_id being no other
\* run's, has no Thought in the graph, no entry in the vector index and no
\* message in the conversation log.
C40_FailedRunWroteNothing ==
    \A r \in Runs :
        (/\ pc[r] = "failed"
         /\ \A q \in Runs : (q # r /\ pc[q] # "idle") => thought_id[q] # thought_id[r]) =>
            /\ thought_id[r] \notin graphThoughts
            /\ thought_id[r] \notin vectorIndex
            /\ \A k \in DOMAIN conversation_history :
                  conversation_history[k].thought_id # thought_id[r]

====
